---- MODULE Spec2Model ----
(***************************************************************************)
(* A model of the kronofoto photo archive (archive/models.py,              *)
(* archive/forms.py): the photo catalog, the filtered and ordered view     *)
(* (filter_photos, photo_position, page_number, year_index, year_links),   *)
(* the CollectionQuery dispatch and cache key, the search form's           *)
(* as_expression, the tags with the handlers that remove dead tags, the    *)
(* tags submitted for a photo and shown to a viewer, the urls of           *)
(* collectible objects, the links between pages and the NewCutoff row.     *)
(*                                                                         *)
(* A QuerySet is modelled by the set of ids of the rows it selects; where  *)
(* the code orders or indexes a QuerySet the order is computed here.       *)
(* The expression classes (archive/search/expression.py) and the parser    *)
(* (archive/search/parser.py) are modelled from the specification and the  *)
(* tests.                                                                  *)
(***************************************************************************)
EXTENDS Integers, Sequences, FiniteSets, TLC

VARIABLES
    photos,     \* the Photo table: photos[id] is the row with primary key id
    entry,      \* "idle", or the entry point of the request being served
    query,      \* the CollectionQuery of the request: [expr, user]
    call,       \* the branch CollectionQuery.filter took
    qs,         \* the QuerySet the request works on (a set of ids)
    out,        \* the result of the last view operation on qs, or of the form
    cleaned_data,   \* the cleaned data of the bound SearchForm
    encoded,    \* the cache keys made so far: a list of [expr, user, key]
    tags,       \* the Tag table: tags[id] is whether the row with primary key id exists
                \* (the stored text of the row where tags are submitted)
    phototags,  \* the PhotoTag table: phototags[id] is [tag, photo, live], live until deleted
                \* ([tag, photo, accepted, creator] where tags are submitted)
    connected,  \* whether remove_deadtags is connected to post_delete of PhotoTag
    cutoffs     \* the NewCutoff table and its primary key sequence: [rows, sequence]

vars == <<photos, entry, query, call, qs, out, cleaned_data, encoded, tags, phototags, connected,
         cutoffs>>

(***************************************************************************)
(* Bounds of the model and constants of the program.                       *)
(***************************************************************************)
MaxPhotos == 3
YearSpan == 3
MaxEncoded == 2
MaxTags == 2
MaxPhotoTags == 3
MaxSubmissions == 2
MaxObjects == 12
MaxPages == 4
MaxCutoffs == 4
MaxDates == 4
FixtureFirstYear == 1900
FixtureSize == 50
PAGE_SIZE == 10
NULL == -1

Years == FixtureFirstYear .. (FixtureFirstYear + YearSpan - 1)

Min2(a, b) == IF a < b THEN a ELSE b

RECURSIVE SumOver(_, _)
SumOver(S, f) ==
    IF S = {} THEN 0
    ELSE LET x == CHOOSE x \in S : TRUE IN f[x] + SumOver(S \ {x}, f)

(***************************************************************************)
(* Strings, and hashlib.md5 (RFC 1321) on 16-bit halves of 32-bit words.   *)
(***************************************************************************)
\* The printable ASCII characters, from code 32 (space) to code 126 (~); the slots of
\* the backslash (92) and the backquote (96) hold their names.
ASCII == <<
    " ", "!", "\"", "#", "$", "%", "&", "'", "(", ")", "*", "+", ",", "-", ".", "/",
    "0", "1", "2", "3", "4", "5", "6", "7", "8", "9", ":", ";", "<", "=", ">", "?",
    "@", "A", "B", "C", "D", "E", "F", "G", "H", "I", "J", "K", "L", "M", "N", "O",
    "P", "Q", "R", "S", "T", "U", "V", "W", "X", "Y", "Z", "[", "backslash", "]", "^", "_",
    "backtick", "a", "b", "c", "d", "e", "f", "g", "h", "i", "j", "k", "l", "m", "n", "o",
    "p", "q", "r", "s", "t", "u", "v", "w", "x", "y", "z", "{", "|", "}", "~" >>

\* Strings are sequences of characters. ord(c), and str.encode('utf-8') of a string
\* of ASCII characters.
ord(c) == 31 + (CHOOSE i \in 1 .. Len(ASCII) : ASCII[i] = c)
encode(s) == [i \in 1 .. Len(s) |-> ord(s[i])]

DIGITS == <<"0", "1", "2", "3", "4", "5", "6", "7", "8", "9">>

IsDigit(c) == \E i \in 1 .. 10 : DIGITS[i] = c
IsNumeric(s) == Len(s) > 0 /\ \A i \in 1 .. Len(s) : IsDigit(s[i])

\* str(n) and int(s) for n >= 0 and a string s of digits.
RECURSIVE int_to_str(_)
int_to_str(n) ==
    IF n < 10 THEN <<DIGITS[n + 1]>>
    ELSE int_to_str(n \div 10) \o <<DIGITS[(n % 10) + 1]>>

RECURSIVE str_to_int(_)
str_to_int(s) ==
    IF s = <<>> THEN 0
    ELSE 10 * str_to_int(SubSeq(s, 1, Len(s) - 1))
            + ((CHOOSE i \in 1 .. 10 : DIGITS[i] = s[Len(s)]) - 1)

\* repr(s) of a str: in double quotes when s has a single quote and no double quote,
\* otherwise in single quotes with backslashes and single quotes escaped.
RECURSIVE escape_str(_)
escape_str(s) ==
    IF s = <<>> THEN <<>>
    ELSE (IF s[1] \in {"'", "backslash"} THEN <<"backslash", s[1]>> ELSE <<s[1]>>)
            \o escape_str(Tail(s))

repr_str(s) ==
    LET chars == {s[i] : i \in 1 .. Len(s)}
    IN IF "'" \in chars /\ "\"" \notin chars
       THEN <<"\"">> \o s \o <<"\"">>
       ELSE <<"'">> \o escape_str(s) \o <<"'">>

\* 32-bit words are pairs <<high half, low half>> of 16-bit numbers.
HALF == 65536
Pow2 == <<1, 2, 4, 8, 16, 32, 64, 128, 256, 512, 1024, 2048, 4096, 8192, 16384, 32768>>

\* Bitwise and of two 4-bit numbers, and of two 16-bit numbers.
RECURSIVE and_bits(_, _, _)
and_bits(a, b, n) ==
    IF n = 0 THEN 0
    ELSE (a % 2) * (b % 2) + 2 * and_bits(a \div 2, b \div 2, n - 1)

AND4 == [a \in 0 .. 15 |-> [b \in 0 .. 15 |-> and_bits(a, b, 4)]]

and16(a, b) ==
    AND4[a % 16][b % 16]
        + 16 * AND4[(a \div 16) % 16][(b \div 16) % 16]
        + 256 * AND4[(a \div 256) % 16][(b \div 256) % 16]
        + 4096 * AND4[a \div 4096][b \div 4096]

or16(a, b) == a + b - and16(a, b)
xor16(a, b) == a + b - 2 * and16(a, b)
not16(a) == (HALF - 1) - a

w_and(x, y) == <<and16(x[1], y[1]), and16(x[2], y[2])>>
w_or(x, y) == <<or16(x[1], y[1]), or16(x[2], y[2])>>
w_xor(x, y) == <<xor16(x[1], y[1]), xor16(x[2], y[2])>>
w_not(x) == <<not16(x[1]), not16(x[2])>>

\* Addition modulo 2^32.
w_add(x, y) ==
    LET lo == x[2] + y[2]
    IN <<(x[1] + y[1] + (lo \div HALF)) % HALF, lo % HALF>>

\* Rotation to the left by s bits, 0 < s < 32.
w_rotl(x, s) ==
    LET y == IF s >= 16 THEN <<x[2], x[1]>> ELSE x
        r == s % 16
    IN IF r = 0 THEN y
       ELSE <<((y[1] * Pow2[r + 1]) % HALF) + (y[2] \div Pow2[17 - r]),
              ((y[2] * Pow2[r + 1]) % HALF) + (y[1] \div Pow2[17 - r])>>

\* MD5 (RFC 1321): the sine table, the shift amounts and the initial state.
MD5_K == <<
    <<55146, 42104>>, <<59591, 46934>>, <<9248, 28891>>, <<49597, 52974>>,
    <<62844, 4015>>, <<18311, 50730>>, <<43056, 17939>>, <<64838, 38145>>,
    <<27008, 39128>>, <<35652, 63407>>, <<65535, 23473>>, <<35164, 55230>>,
    <<27536, 4386>>, <<64920, 29075>>, <<42617, 17294>>, <<18868, 2081>>,
    <<63006, 9570>>, <<49216, 45888>>, <<9822, 23121>>, <<59830, 51114>>,
    <<54831, 4189>>, <<580, 5203>>, <<55457, 59009>>, <<59347, 64456>>,
    <<8673, 52710>>, <<49975, 2006>>, <<62677, 3463>>, <<17754, 5357>>,
    <<43491, 59653>>, <<64751, 41976>>, <<26479, 729>>, <<36138, 19594>>,
    <<65530, 14658>>, <<34673, 63105>>, <<28061, 24866>>, <<64997, 14348>>,
    <<42174, 59972>>, <<19422, 53161>>, <<63163, 19296>>, <<48831, 48240>>,
    <<10395, 32454>>, <<60065, 10234>>, <<54511, 12421>>, <<1160, 7429>>,
    <<55764, 53305>>, <<59099, 39397>>, <<8098, 31992>>, <<50348, 22117>>,
    <<62505, 8772>>, <<17194, 65431>>, <<43924, 9127>>, <<64659, 41017>>,
    <<25947, 22979>>, <<36620, 52370>>, <<65519, 62589>>, <<34180, 24017>>,
    <<28584, 32335>>, <<65068, 59104>>, <<41729, 17172>>, <<19976, 4513>>,
    <<63315, 32386>>, <<48442, 62005>>, <<10967, 53947>>, <<60294, 54161>> >>

MD5_S == <<7, 12, 17, 22, 7, 12, 17, 22, 7, 12, 17, 22, 7, 12, 17, 22,
    5, 9, 14, 20, 5, 9, 14, 20, 5, 9, 14, 20, 5, 9, 14, 20,
    4, 11, 16, 23, 4, 11, 16, 23, 4, 11, 16, 23, 4, 11, 16, 23,
    6, 10, 15, 21, 6, 10, 15, 21, 6, 10, 15, 21, 6, 10, 15, 21 >>

MD5_INIT == << <<26437, 8961>>, <<61389, 43913>>, <<39098, 56574>>, <<4146, 21622>> >>

\* The message padded to a multiple of 64 bytes: 0x80, zeros, and the length in
\* bits as a 64-bit little-endian number.
md5_pad(bytes) ==
    LET n == Len(bytes)
        zeros == (119 - (n % 64)) % 64
        bits == 8 * n
    IN bytes \o <<128>> \o [i \in 1 .. zeros |-> 0]
             \o <<bits % 256, (bits \div 256) % 256, (bits \div HALF) % 256,
                  bits \div (256 * HALF), 0, 0, 0, 0>>

\* The 16 little-endian words of the block starting after byte off.
md5_words(p, off) ==
    [j \in 1 .. 16 |->
        <<p[off + 4 * j - 1] + 256 * p[off + 4 * j],
          p[off + 4 * j - 3] + 256 * p[off + 4 * j - 2]>>]

\* Round i of the compression of block m, on the state <<a, b, c, d>>.
md5_round(st, m, i) ==
    LET a == st[1]
        b == st[2]
        c == st[3]
        d == st[4]
        f == CASE i < 16 -> w_or(w_and(b, c), w_and(w_not(b), d))
               [] i < 32 -> w_or(w_and(d, b), w_and(w_not(d), c))
               [] i < 48 -> w_xor(b, w_xor(c, d))
               [] OTHER -> w_xor(c, w_or(b, w_not(d)))
        g == CASE i < 16 -> i
               [] i < 32 -> (5 * i + 1) % 16
               [] i < 48 -> (3 * i + 5) % 16
               [] OTHER -> (7 * i) % 16
        t == w_add(w_add(a, f), w_add(MD5_K[i + 1], m[g + 1]))
    IN <<d, w_add(b, w_rotl(t, MD5_S[i + 1])), b, c>>

\* Rounds i..63. The state is a tuple of four words at every round (the test also
\* makes TLC evaluate it round by round rather than as one nested expression).
RECURSIVE md5_rounds(_, _, _)
md5_rounds(st, m, i) ==
    IF i = 64 \/ Len(st) # 4 THEN st
    ELSE md5_rounds(md5_round(st, m, i), m, i + 1)

RECURSIVE md5_blocks(_, _, _)
md5_blocks(st, p, off) ==
    IF off >= Len(p) THEN st
    ELSE LET r == md5_rounds(st, md5_words(p, off), 0)
         IN md5_blocks(<<w_add(st[1], r[1]), w_add(st[2], r[2]),
                         w_add(st[3], r[3]), w_add(st[4], r[4])>>, p, off + 64)

HEX == <<"0", "1", "2", "3", "4", "5", "6", "7", "8", "9", "a", "b", "c", "d", "e", "f">>

\* The two hexadecimal digits of a byte, and the eight of a word, low byte first.
hex_byte(v) == <<HEX[(v \div 16) + 1], HEX[(v % 16) + 1]>>
hex_word(x) ==
    hex_byte(x[2] % 256) \o hex_byte(x[2] \div 256)
        \o hex_byte(x[1] % 256) \o hex_byte(x[1] \div 256)

\* hashlib.md5(bytes).hexdigest()
md5_hexdigest(bytes) ==
    LET st == md5_blocks(MD5_INIT, md5_pad(bytes), 0)
    IN hex_word(st[1]) \o hex_word(st[2]) \o hex_word(st[3]) \o hex_word(st[4])

(***************************************************************************)
(* Expressions (archive/search/expression.py).                             *)
(***************************************************************************)
None == [op |-> "None"]
YearEquals(v) == [op |-> "YearEquals", value |-> v]
YearLTE(v) == [op |-> "YearLTE", value |-> v]
YearGTE(v) == [op |-> "YearGTE", value |-> v]
And(l, r) == [op |-> "And", left |-> l, right |-> r]
Or(l, r) == [op |-> "Or", left |-> l, right |-> r]
Not(e) == [op |-> "Not", inner |-> e]
Maximum(l, r) == [op |-> "Maximum", left |-> l, right |-> r]

\* The leaves over text fields (value is a string), and over a Term or Donor row
\* (value is its primary key).
Caption(v) == [op |-> "Caption", value |-> v]
Donor(v) == [op |-> "Donor", value |-> v]
State(v) == [op |-> "State", value |-> v]
Country(v) == [op |-> "Country", value |-> v]
County(v) == [op |-> "County", value |-> v]
City(v) == [op |-> "City", value |-> v]
Tag(v) == [op |-> "Tag", value |-> v]
Term(v) == [op |-> "Term", value |-> v]
TermExactly(v) == [op |-> "TermExactly", value |-> v]
DonorExactly(v) == [op |-> "DonorExactly", value |-> v]

YearOps == {"YearEquals", "YearLTE", "YearGTE"}
TextOps == {"Caption", "Donor", "State", "Country", "County", "City", "Tag", "Term"}
RowOps == {"TermExactly", "DonorExactly"}

\* The year leaves, which the catalog of this model can evaluate.
LeafOps == YearOps

\* is_collection with every leaf a collection, Caption too.
RECURSIVE is_collection_every_leaf(_)
is_collection_every_leaf(e) ==
    CASE e.op \in YearOps \cup TextOps \cup RowOps -> TRUE
      [] e.op \in {"And", "Maximum"} ->
            is_collection_every_leaf(e.left) /\ is_collection_every_leaf(e.right)
      [] e.op \in {"Or", "Not"} -> FALSE

\* Expression.is_collection: a leaf is a collection, except a Caption
\* (ExpressionTest.testMaximumCanBeCollection, testAndCanBeCollection); And and
\* Maximum are when both children are; Or and Not never are.
RECURSIVE is_collection(_)
is_collection(e) ==
    CASE e.op = "Caption" -> FALSE
      [] e.op \in (YearOps \cup TextOps \cup RowOps) \ {"Caption"} -> TRUE
      [] e.op \in {"And", "Maximum"} -> is_collection(e.left) /\ is_collection(e.right)
      [] e.op \in {"Or", "Not"} -> FALSE

\* Whether the photo with id p satisfies leaf e (a NULL year satisfies no comparison).
LeafMatches(e, p) ==
    LET y == photos[p].year IN
    /\ y # NULL
    /\ CASE e.op = "YearEquals" -> y = e.value
         [] e.op = "YearLTE" -> y <= e.value
         [] e.op = "YearGTE" -> y >= e.value

\* as_search with the negation of SQL, under which a comparison with a NULL year is
\* neither true nor false.
RECURSIVE as_search_null_unknown(_, _, _)
as_search_null_unknown(e, s, user) ==
    CASE e.op \in LeafOps -> {p \in s : LeafMatches(e, p)}
      [] e.op = "And" ->
            as_search_null_unknown(e.left, s, user) \cap as_search_null_unknown(e.right, s, user)
      [] e.op = "Or" ->
            as_search_null_unknown(e.left, s, user) \cup as_search_null_unknown(e.right, s, user)
      [] e.op = "Not" ->
            {p \in s : photos[p].year # NULL} \ as_search_null_unknown(e.inner, s, user)
      [] e.op = "Maximum" ->
            LET l == as_search_null_unknown(e.left, s, user)
            IN IF l # {} THEN l ELSE as_search_null_unknown(e.right, s, user)

RECURSIVE as_search(_, _, _)
as_search(e, s, user) ==
    CASE e.op \in LeafOps -> {p \in s : LeafMatches(e, p)}
      [] e.op = "And" -> as_search(e.left, s, user) \cap as_search(e.right, s, user)
      [] e.op = "Or" -> as_search(e.left, s, user) \cup as_search(e.right, s, user)
      [] e.op = "Not" -> s \ as_search(e.inner, s, user)
      [] e.op = "Maximum" ->
            LET l == as_search(e.left, s, user)
            IN IF l # {} THEN l ELSE as_search(e.right, s, user)

as_collection(e, s, user) == as_search(e, s, user)


\* The names of the expression classes, as strings.
CLASS_NAME ==
    [ None |-> <<"N", "o", "n", "e">>,
      YearEquals |-> <<"Y", "e", "a", "r", "E", "q", "u", "a", "l", "s">>,
      YearLTE |-> <<"Y", "e", "a", "r", "L", "T", "E">>,
      YearGTE |-> <<"Y", "e", "a", "r", "G", "T", "E">>,
      Caption |-> <<"C", "a", "p", "t", "i", "o", "n">>,
      Donor |-> <<"D", "o", "n", "o", "r">>,
      State |-> <<"S", "t", "a", "t", "e">>,
      Country |-> <<"C", "o", "u", "n", "t", "r", "y">>,
      County |-> <<"C", "o", "u", "n", "t", "y">>,
      City |-> <<"C", "i", "t", "y">>,
      Tag |-> <<"T", "a", "g">>,
      Term |-> <<"T", "e", "r", "m">>,
      TermExactly |-> <<"T", "e", "r", "m", "E", "x", "a", "c", "t", "l", "y">>,
      DonorExactly |-> <<"D", "o", "n", "o", "r", "E", "x", "a", "c", "t", "l", "y">>,
      And |-> <<"A", "n", "d">>,
      Or |-> <<"O", "r">>,
      Not |-> <<"N", "o", "t">>,
      Maximum |-> <<"M", "a", "x", "i", "m", "u", "m">> ]

\* repr(expr): the canonical form of an expression, the class name applied to the
\* repr of the constructor arguments (a row by its primary key); None for no
\* expression.
RECURSIVE repr(_)
repr(e) ==
    LET name == CLASS_NAME[e.op]
        applied(args) == name \o <<"(">> \o args \o <<")">>
    IN CASE e.op = "None" -> name
         [] e.op \in YearOps \cup RowOps -> applied(int_to_str(e.value))
         [] e.op \in TextOps -> applied(repr_str(e.value))
         [] e.op = "Not" -> applied(repr(e.inner))
         [] OTHER -> applied(repr(e.left) \o <<",", " ">> \o repr(e.right))

\* str.lower() of a string of ASCII characters.
lower_char(c) == IF ord(c) \in 65 .. 90 THEN ASCII[ord(c) + 1] ELSE c
lower(s) == [i \in 1 .. Len(s) |-> lower_char(s[i])]

\* The outcome of a label: the string returned, or the exception raised.
Label(v) == [status |-> "ok", value |-> v]
NotImplemented == [status |-> "NotImplementedError", value |-> <<>>]

\* The label of a leaf: its field name, a colon and its value; a year leaf is Year
\* with - for YearLTE and + for YearGTE; a Term has its value in lower case.
leaf_label(e) ==
    CASE e.op = "YearEquals" -> <<"Y", "e", "a", "r", ":", " ">> \o int_to_str(e.value)
      [] e.op = "YearLTE" -> <<"Y", "e", "a", "r", ":", " ">> \o int_to_str(e.value) \o <<"-">>
      [] e.op = "YearGTE" -> <<"Y", "e", "a", "r", ":", " ">> \o int_to_str(e.value) \o <<"+">>
      [] e.op = "Term" -> CLASS_NAME[e.op] \o <<":", " ">> \o lower(e.value)
      [] e.op \in TextOps \ {"Term"} -> CLASS_NAME[e.op] \o <<":", " ">> \o e.value

\* short_label with Maximum giving the label of its left child.
RECURSIVE short_label_left_label(_)
short_label_left_label(e) ==
    CASE e.op \in YearOps \cup TextOps -> Label(leaf_label(e))
      [] e.op = "Maximum" -> short_label_left_label(e.left)
      [] e.op \in {"And", "Or", "Not"} -> NotImplemented

\* Expression.short_label. The label of a Maximum comes from its left child: the bare
\* value of a leaf (ExpressionTest.testShortLabels: Maximum(Term("dog"), Term("dog"))
\* is labelled dog), and what the left child gives when it is a combinator. And, Or
\* and Not have no label.
RECURSIVE short_label(_)
short_label(e) ==
    CASE e.op \in YearOps -> Label(leaf_label(e))
      [] e.op \in TextOps -> Label(leaf_label(e))
      [] e.op = "Maximum" ->
            IF e.left.op \in YearOps THEN Label(int_to_str(e.left.value))
            ELSE IF e.left.op \in TextOps THEN Label(e.left.value)
            ELSE short_label(e.left)
      [] e.op \in {"And", "Or", "Not"} -> NotImplemented

\* The expressions requests are made with.
Y0 == FixtureFirstYear
QueryExprs ==
    { None,
      YearEquals(Y0 + 1),
      YearGTE(Y0 + 1),
      YearEquals(Y0 + FixtureSize),
      And(YearGTE(Y0), YearLTE(Y0 + 1)),
      Or(YearEquals(Y0), YearEquals(Y0 + 2)),
      Not(YearEquals(Y0 + 1)),
      Maximum(YearEquals(Y0 + 1), YearEquals(Y0 + 2)),
      Maximum(YearEquals(Y0), Not(YearEquals(Y0))) }

\* The CollectionQuery objects requests are made with: every expression for the
\* anonymous user, and some for a logged-in user.
Requests ==
    {[expr |-> e, user |-> "anon"] : e \in QueryExprs}
        \cup {[expr |-> e, user |-> "alice"] :
                    e \in {None, Not(YearEquals(Y0 + 1)), YearGTE(Y0 + 1)}}

(***************************************************************************)
(* PhotoQuerySet and CollectionQuery (archive/models.py).                  *)
(***************************************************************************)
AllIds == 1 .. Len(photos)

\* QuerySet.filter(year__isnull=False, is_published=True)
filter_year_published(s) ==
    {p \in s : photos[p].year # NULL /\ photos[p].is_published}

\* filter with a fault: is_collection is not consulted.
filter_always_collection(q, s) ==
    IF q.expr.op = "None"
    THEN [call |-> "filter", result |-> filter_year_published(s)]
    ELSE [call |-> "as_collection", result |-> as_collection(q.expr, s, q.user)]

\* CollectionQuery.filter: the branch taken and the QuerySet returned.
filter(q, s) ==
    IF q.expr.op = "None"
    THEN [call |-> "filter", result |-> filter_year_published(s)]
    ELSE IF is_collection(q.expr)
    THEN [call |-> "as_collection", result |-> as_collection(q.expr, s, q.user)]
    ELSE [call |-> "as_search", result |-> as_search(q.expr, s, q.user)]

\* CollectionQuery.make_key: the hexadecimal MD5 digest of the UTF-8 bytes of s.
make_key(s) == md5_hexdigest(encode(s))

\* cache_encoding with a fault: the key is made from the expression and the user.
cache_encoding_with_user(q) ==
    make_key(repr(q.expr) \o (IF q.user = "anon" THEN <<>> ELSE <<":", "u">>))

\* cache_encoding with a fault: the key is made from the class of the expression only.
cache_encoding_of_class(q) == make_key(CLASS_NAME[q.expr.op])

\* CollectionQuery.cache_encoding
cache_encoding(q) == make_key(repr(q.expr))

\* filter_photos with a fault: the collection filters the unrestricted QuerySet.
filter_photos_unrestricted(s, collection) == filter(collection, s)

\* PhotoQuerySet.filter_photos
filter_photos(s, collection) == filter(collection, filter_year_published(s))

\* photo_position with a fault: the id does not break ties within a year.
photo_position_year_only(s, p) ==
    Cardinality({q \in s :
        photos[q].year # NULL /\ photos[q].year < photos[p].year})

\* PhotoQuerySet.photo_position: the photos of s strictly before photo p.
photo_position(s, p) ==
    Cardinality({q \in s :
        /\ photos[q].year # NULL
        /\ \/ photos[q].year < photos[p].year
           \/ (photos[q].year = photos[p].year /\ q < p)})

\* QuerySet.year_range: aggregate(end=Max('year'), start=Min('year')); NULL years
\* are ignored by the aggregates, and both are NULL when no row has a year.
year_range(s) ==
    LET dated == {photos[p].year : p \in s} \ {NULL}
    IN IF dated = {}
       THEN [start |-> NULL, end |-> NULL]
       ELSE [start |-> CHOOSE y \in dated : \A z \in dated : y <= z,
             end |-> CHOOSE y \in dated : \A z \in dated : z <= y]

\* year_index with a fault: the photo of greatest id stands for its year.
year_index_greatest_id(s) ==
    LET ys == {photos[p].year : p \in s}
        max_id(y) == CHOOSE p \in s :
                        /\ photos[p].year = y
                        /\ \A r \in s : photos[r].year = y => r <= p
        count == [y \in ys |-> Cardinality({p \in s : photos[p].year = y})]
        row(y) == SumOver({z \in ys : z <= y}, count) - count[y]
        nth(i) == CHOOSE y \in ys : Cardinality({z \in ys : z < y}) = i - 1
    IN [i \in 1 .. Cardinality(ys) |->
            [id |-> max_id(nth(i)), year |-> nth(i), row_number |-> row(nth(i))]]

\* year_index with a fault: the running sum is not reduced by the year's own count.
year_index_running_sum(s) ==
    LET ys == {photos[p].year : p \in s}
        min_id(y) == CHOOSE p \in s :
                        /\ photos[p].year = y
                        /\ \A r \in s : photos[r].year = y => p <= r
        count == [y \in ys |-> Cardinality({p \in s : photos[p].year = y})]
        row(y) == SumOver({z \in ys : z <= y}, count)
        nth(i) == CHOOSE y \in ys : Cardinality({z \in ys : z < y}) = i - 1
    IN [i \in 1 .. Cardinality(ys) |->
            [id |-> min_id(nth(i)), year |-> nth(i), row_number |-> row(nth(i))]]

\* PhotoQuerySet.year_index, for a set s whose photos all have a year: the photo of
\* least id of each year (yearid), annotated with the running sum, in year order, of
\* the per-year counts (yearcount) minus its own year's count; ordered by year.
year_index(s) ==
    LET ys == {photos[p].year : p \in s}
        min_id(y) == CHOOSE p \in s :
                        /\ photos[p].year = y
                        /\ \A r \in s : photos[r].year = y => p <= r
        count == [y \in ys |-> Cardinality({p \in s : photos[p].year = y})]
        row(y) == SumOver({z \in ys : z <= y}, count) - count[y]
        nth(i) == CHOOSE y \in ys : Cardinality({z \in ys : z < y}) = i - 1
    IN [i \in 1 .. Cardinality(ys) |->
            [id |-> min_id(nth(i)), year |-> nth(i), row_number |-> row(nth(i))]]

\* bisect.bisect_left(a, x) of the standard library, on the 0-based list a.
RECURSIVE bisect_search(_, _, _, _)
bisect_search(a, x, lo, hi) ==
    IF lo < hi
    THEN LET mid == (lo + hi) \div 2
         IN IF a[mid + 1] < x
            THEN bisect_search(a, x, mid + 1, hi)
            ELSE bisect_search(a, x, lo, mid)
    ELSE lo

bisect_left(a, x) == bisect_search(a, x, 0, Len(a))

\* bisect with a fault: the insertion point after the entries equal to x (bisect_right).
bisect_after_equal(xs, x) ==
    Min2(Cardinality({i \in 1 .. Len(xs) : xs[i] <= x}), Len(xs) - 1)

\* bisect = lambda xs, x: min(bisect_left(xs, x), len(xs)-1)
bisect(xs, x) == Min2(bisect_left(xs, x), Len(xs) - 1)

\* page_number with a fault: a row_number the object already carries is not recomputed.
page_number_stale_row(obj, queryset) ==
    IF obj.page # <<>>
    THEN [status |-> "ok", value |-> obj.page[1], row_number |-> obj.row_number]
    ELSE LET row == IF obj.row_number = <<>> /\ queryset # <<>> /\ queryset[1] # {}
                    THEN <<photo_position(queryset[1], obj.id)>>
                    ELSE obj.row_number
         IN IF row # <<>>
            THEN [status |-> "ok", value |-> (row[1] \div PAGE_SIZE) + 1, row_number |-> row]
            ELSE [status |-> "AttributeError", value |-> NULL, row_number |-> row]

\* Photo.page_number. obj is the photo object: its id and its page and row_number
\* attributes (<<>> when the object has no such attribute, <<n>> otherwise); queryset
\* is <<>> for None and <<s>> for a QuerySet, which is true when it has a row.
page_number(obj, queryset) ==
    IF obj.page # <<>>
    THEN [status |-> "ok", value |-> obj.page[1], row_number |-> obj.row_number]
    ELSE LET row == IF queryset # <<>> /\ queryset[1] # {}
                    THEN <<photo_position(queryset[1], obj.id)>>
                    ELSE obj.row_number
         IN IF row # <<>>
            THEN [status |-> "ok", value |-> (row[1] \div PAGE_SIZE) + 1, row_number |-> row]
            ELSE [status |-> "AttributeError", value |-> NULL, row_number |-> row]

\* PhotoQuerySet.year_links: the years of the whole catalog's range, each with the
\* representative year_index[bisect(years, year)] and the page its url names
\* (create_url calls page_number with no queryset). The list comprehension stops at
\* the first index the QuerySet refuses (it supports no negative index, and has no
\* row at an index past its end); indexes are the indexes computed until then.
year_links(s) ==
    LET yi == year_index(s)
        years == [i \in 1 .. Len(yi) |-> yi[i].year]
        yr == year_range(AllIds)
    IN IF yr.start = NULL
       THEN [status |-> "TypeError", links |-> <<>>, indexes |-> <<>>, reps |-> yi]
       ELSE LET n == yr.end - yr.start + 1
                idx == [k \in 1 .. n |-> bisect(years, yr.start + k - 1)]
                bad == {k \in 1 .. n : idx[k] \notin 0 .. Len(yi) - 1}
            IN IF bad # {}
               THEN LET first == CHOOSE k \in bad : \A j \in bad : k <= j
                    IN [status |-> "NegativeIndex", links |-> <<>>,
                        indexes |-> [k \in 1 .. first |-> idx[k]], reps |-> yi]
               ELSE [status |-> "ok",
                     links |-> [k \in 1 .. n |->
                        LET rep == yi[idx[k] + 1]
                        IN [year |-> yr.start + k - 1,
                            photo |-> rep.id,
                            page |-> page_number([id |-> rep.id, page |-> <<>>,
                                          row_number |-> <<rep.row_number>>], <<>>).value]],
                     indexes |-> idx, reps |-> yi]

(***************************************************************************)
(* The tokenizer and the parser (archive/search/parser.py).                *)
(***************************************************************************)
\* The recognized field names and the leaf each makes.
FIELD_NAMES == <<
    <<"c", "a", "p", "t", "i", "o", "n">>,
    <<"t", "a", "g">>,
    <<"t", "e", "r", "m">>,
    <<"d", "o", "n", "o", "r">>,
    <<"c", "i", "t", "y">>,
    <<"c", "o", "u", "n", "t", "y">>,
    <<"s", "t", "a", "t", "e">>,
    <<"c", "o", "u", "n", "t", "r", "y">>,
    <<"y", "e", "a", "r">> >>

FIELD_OPS == <<"Caption", "Tag", "Term", "Donor", "City", "County", "State", "Country", "YearEquals">>

KEYWORD_AND == <<"A", "N", "D">>
KEYWORD_OR == <<"O", "R">>

Token(kind, value) == [kind |-> kind, value |-> value]

\* The characters that end a run of word characters.
DELIMITERS == {" ", "(", ")", "|"}

RECURSIVE run_end(_, _)
run_end(text, i) ==
    IF i > Len(text) \/ text[i] \in DELIMITERS THEN i ELSE run_end(text, i + 1)

\* The position of the first double quote at or after i, 0 when there is none.
RECURSIVE closing_quote(_, _)
closing_quote(text, i) ==
    IF i > Len(text) THEN 0
    ELSE IF text[i] = "\"" THEN i
    ELSE closing_quote(text, i + 1)

\* A bare word: a numeric word or a word.
word_token(w) == IF IsNumeric(w) THEN Token("number", w) ELSE Token("word", w)

\* The token of a run of word characters: a keyword, a typed leaf field:value of a
\* recognized field, or a bare word (also when the field is not recognized).
classify(lexeme) ==
    LET colons == {k \in 1 .. Len(lexeme) : lexeme[k] = ":"}
        k == IF colons = {} THEN 0 ELSE CHOOSE c \in colons : \A d \in colons : c <= d
        name == SubSeq(lexeme, 1, k - 1)
        value == SubSeq(lexeme, k + 1, Len(lexeme))
        fields == {f \in 1 .. Len(FIELD_NAMES) : FIELD_NAMES[f] = name}
    IN CASE lexeme = KEYWORD_AND -> Token("AND", <<>>)
         [] lexeme = KEYWORD_OR -> Token("OR", <<>>)
         [] lexeme # KEYWORD_AND /\ lexeme # KEYWORD_OR
                /\ k > 0 /\ fields # {} /\ value # <<>> ->
                LET op == FIELD_OPS[CHOOSE f \in fields : TRUE]
                IN IF op # "YearEquals"
                   THEN Token("leaf", [op |-> op, value |-> value])
                   ELSE IF IsNumeric(value)
                   THEN Token("leaf", YearEquals(str_to_int(value)))
                   ELSE word_token(lexeme)
         [] OTHER -> word_token(lexeme)

\* The tokens of text from position i on, after the tokens toks; a quotation that is
\* not closed is a SyntaxError at the offset of its quote.
RECURSIVE scan(_, _, _)
scan(text, i, toks) ==
    IF i > Len(text) THEN [err |-> "none", tokens |-> toks, offset |-> 0]
    ELSE LET c == text[i]
         IN CASE c = " " -> scan(text, i + 1, toks)
              [] c \in {"(", ")", "|", "-"} -> scan(text, i + 1, Append(toks, Token(c, <<>>)))
              [] c = "\"" ->
                    LET j == closing_quote(text, i + 1)
                    IN IF j = 0
                       THEN [err |-> "SyntaxError", tokens |-> <<>>, offset |-> i - 1]
                       ELSE scan(text, j + 1,
                                 Append(toks, word_token(SubSeq(text, i + 1, j - 1))))
              [] OTHER ->
                    LET j == run_end(text, i)
                    IN scan(text, j, Append(toks, classify(SubSeq(text, i, j - 1))))

\* Parser.tokenize
tokenize(text) == scan(text, 1, <<>>)

\* word_expression with the Caption ahead of the Donor.
word_expression_caption_first(w) ==
    Or(Caption(w), Or(Donor(w), Or(State(w), Or(Country(w),
        Or(County(w), Or(City(w), Or(Tag(w), Term(w))))))))

\* The expression of a bare word: an Or over the text fields, and of a bare numeric
\* word: YearEquals ahead of that chain.
word_expression(w) ==
    Or(Donor(w), Or(Caption(w), Or(State(w), Or(Country(w),
        Or(County(w), Or(City(w), Or(Tag(w), Term(w))))))))

number_expression(w) == Or(YearEquals(str_to_int(w)), word_expression(w))

\* A parse of some tokens: the expression e (<<>> when the tokens made none) and the
\* position i of the next token; or the failure err at the token index (from 0).
Parsed(e, i) == [err |-> "none", e |-> e, i |-> i, index |-> 0]
Failure(err, index) == [err |-> err, e |-> <<>>, i |-> 0, index |-> index]

\* The operator that joins adjacent terms with an implicit AND.
ADJACENCY_AND == "And"

\* The operator that joins adjacent terms: ParserTest.testParserShouldSupportParentheses
\* parses (caption:cat caption:banana) to Or(Caption('cat'), Caption('banana')).
ADJACENCY == "Or"

\* l op r, where a missing operand leaves the other operand.
combine(op, l, r) ==
    IF l = <<>> THEN r
    ELSE IF r = <<>> THEN l
    ELSE <<[op |-> op, left |-> l[1], right |-> r[1]]>>

\* The tokens a term starts with.
STARTS == {"leaf", "word", "number", "(", "-"}

\* The parser by recursive descent. parse_level(level, toks, left, i) parses, from
\* token i on, the part of the grammar that level names; left is the expression
\* parsed so far for the levels that continue one, and <<>> for the others.
\*   expression:  disjunction (| expression)?     | splits into two halves
\*   or:          conjunction (OR conjunction)*   joined to the left
\*   and:         term (AND term | term)*         joined to the left
\*   unary:       - unary | atom                  a negation of nothing is nothing
\*   atom:        a leaf, a bare word, or ( expression )
RECURSIVE parse_level(_, _, _, _)
parse_level(level, toks, left, i) ==
    CASE level = "atom" ->
            IF i > Len(toks) THEN Parsed(<<>>, i)
            ELSE LET t == toks[i]
                 IN CASE t.kind = "leaf" -> Parsed(<<t.value>>, i + 1)
                      [] t.kind = "word" -> Parsed(<<word_expression(t.value)>>, i + 1)
                      [] t.kind = "number" -> Parsed(<<number_expression(t.value)>>, i + 1)
                      [] t.kind = "(" ->
                            LET r == parse_level("expression", toks, <<>>, i + 1)
                            IN IF r.err # "none" THEN r
                               ELSE IF r.i > Len(toks)
                               THEN Failure("ExpectedParenthesis", r.i - 1)
                               ELSE IF r.e = <<>>
                               THEN Failure("UnexpectedParenthesis", r.i - 1)
                               ELSE Parsed(r.e, r.i + 1)
                      [] OTHER -> Parsed(<<>>, i)
      [] level = "unary" ->
            IF i <= Len(toks) /\ toks[i].kind = "-"
            THEN LET r == parse_level("unary", toks, <<>>, i + 1)
                 IN IF r.err # "none" \/ r.e = <<>> THEN r
                    ELSE Parsed(<<Not(r.e[1])>>, r.i)
            ELSE parse_level("atom", toks, <<>>, i)
      [] level = "and" ->
            LET r == parse_level("unary", toks, <<>>, i)
            IN IF r.err # "none" THEN r ELSE parse_level("and_rest", toks, r.e, r.i)
      [] level = "and_rest" ->
            IF i <= Len(toks) /\ toks[i].kind \in STARTS \cup {"AND"}
            THEN LET explicit == toks[i].kind = "AND"
                     r == parse_level("unary", toks, <<>>, IF explicit THEN i + 1 ELSE i)
                 IN IF r.err # "none" THEN r
                    ELSE parse_level("and_rest", toks,
                            combine(IF explicit THEN "And" ELSE ADJACENCY, left, r.e), r.i)
            ELSE Parsed(left, i)
      [] level = "or" ->
            LET r == parse_level("and", toks, <<>>, i)
            IN IF r.err # "none" THEN r ELSE parse_level("or_rest", toks, r.e, r.i)
      [] level = "or_rest" ->
            IF i <= Len(toks) /\ toks[i].kind = "OR"
            THEN LET r == parse_level("and", toks, <<>>, i + 1)
                 IN IF r.err # "none" THEN r
                    ELSE parse_level("or_rest", toks, combine("Or", left, r.e), r.i)
            ELSE Parsed(left, i)
      [] level = "expression" ->
            LET l == parse_level("or", toks, <<>>, i)
            IN IF l.err = "none" /\ l.i <= Len(toks) /\ toks[l.i].kind = "|"
               THEN LET r == parse_level("expression", toks, <<>>, l.i + 1)
                    IN IF r.err # "none" THEN r
                       ELSE Parsed(combine("Maximum", l.e, r.e), r.i)
               ELSE l

\* parse without the level of the | operator.
parse_without_maximum(toks) ==
    LET r == parse_level("or", toks, <<>>, 1)
    IN IF r.err # "none" THEN r
       ELSE IF r.i <= Len(toks) /\ toks[r.i].kind = ")"
       THEN Failure("UnexpectedParenthesis", r.i - 1)
       ELSE IF r.e = <<>> THEN Failure("NoExpression", 0)
       ELSE r

\* parse that leaves the tokens from a ")" that closes nothing on unread.
parse_ignoring_rest(toks) ==
    LET r == parse_level("expression", toks, <<>>, 1)
    IN IF r.err # "none" THEN r
       ELSE IF r.e = <<>> THEN Failure("NoExpression", 0)
       ELSE r

\* Parser.parse: the expression of all the tokens. The only token that stops
\* expression level is a ")" that closes nothing.
parse(toks) ==
    LET r == parse_level("expression", toks, <<>>, 1)
    IN IF r.err # "none" THEN r
       ELSE IF r.i <= Len(toks) THEN Failure("UnexpectedParenthesis", r.i - 1)
       ELSE IF r.e = <<>> THEN Failure("NoExpression", 0)
       ELSE r

RECURSIVE strip(_)
strip(s) ==
    IF s = <<>> THEN s
    ELSE IF s[1] = " " THEN strip(Tail(s))
    ELSE IF s[Len(s)] = " " THEN strip(SubSeq(s, 1, Len(s) - 1))
    ELSE s

\* Parser.simple_parse: the whole text as one bare word.
simple_parse(text) ==
    IF strip(text) = <<>>
    THEN Failure("NoExpression", 0)
    ELSE Parsed(<<word_expression(strip(text))>>, 0)

\* shakeout of the outermost node only.
shakeout_outermost(e) ==
    CASE e.op = "Not" -> IF e.inner.op = "Not" THEN e.inner.inner ELSE e
      [] e.op \in {"And", "Or", "Maximum"} -> IF e.left = e.right THEN e.left ELSE e
      [] OTHER -> e

\* Expression.shakeout: a double negation is its operand, and a combination of an
\* expression with itself is that expression.
RECURSIVE shakeout(_)
shakeout(e) ==
    CASE e.op = "Not" ->
            LET s == shakeout(e.inner)
            IN IF s.op = "Not" THEN s.inner ELSE Not(s)
      [] e.op \in {"And", "Or", "Maximum"} ->
            LET l == shakeout(e.left)
                r == shakeout(e.right)
            IN IF l = r THEN l ELSE [op |-> e.op, left |-> l, right |-> r]
      [] OTHER -> e

(***************************************************************************)
(* SearchForm (archive/forms.py).                                          *)
(***************************************************************************)
\* functools.reduce(op, xs) for a non-empty list xs.
RECURSIVE reduce(_, _)
reduce(op, xs) ==
    IF Len(xs) = 1 THEN xs[1]
    ELSE [op |-> op, left |-> reduce(op, SubSeq(xs, 1, Len(xs) - 1)), right |-> xs[Len(xs)]]

\* SearchForm.as_expression on the cleaned data cd. A term, a donor and a year are
\* <<>> for None and <<v>> otherwise. The result is the exception raised ("none" when
\* it returns), the value returned, and what tokenize, parse and simple_parse did
\* ("skipped" when not called, "unbound" when simple_parse was called on the name
\* parser before any assignment to it).
as_expression(cd) ==
    LET tk == tokenize(cd.query)
        ps == IF tk.err = "none" THEN parse(tk.tokens) ELSE Failure("skipped", 0)
        in_try == IF tk.err # "none" THEN tk.err ELSE ps.err
        handled == in_try \notin {"none", "NoExpression"}
        unbound == handled /\ tk.err # "none"
        sp == IF handled /\ ~unbound THEN simple_parse(cd.query) ELSE Failure("skipped", 0)
        from_query ==
            CASE in_try = "none" -> <<shakeout(ps.e[1])>>
              [] handled /\ sp.err = "none" -> <<shakeout(sp.e[1])>>
              [] OTHER -> <<>>
        year_exprs ==
            (IF cd.startYear # <<>> /\ cd.startYear[1] # 0
             THEN <<YearGTE(cd.startYear[1])>> ELSE <<>>)
            \o (IF cd.endYear # <<>> /\ cd.endYear[1] # 0
                THEN <<YearLTE(cd.endYear[1])>> ELSE <<>>)
        form_exprs ==
            from_query
            \o (IF cd.term # <<>> THEN <<TermExactly(cd.term[1])>> ELSE <<>>)
            \o (IF Len(year_exprs) > 0 THEN <<reduce("And", year_exprs)>> ELSE <<>>)
            \o (IF cd.donor # <<>> THEN <<DonorExactly(cd.donor[1])>> ELSE <<>>)
            \o (IF cd.city # <<>> THEN <<City(cd.city)>> ELSE <<>>)
            \o (IF cd.state # <<>> THEN <<State(cd.state)>> ELSE <<>>)
            \o (IF cd.country # <<>> THEN <<Country(cd.country)>> ELSE <<>>)
        did == [tokenize |-> tk.err, parse |-> ps.err,
                simple_parse |-> IF unbound THEN "unbound" ELSE sp.err]
    IN IF unbound
       THEN [raised |-> "UnboundLocalError", value |-> <<>>] @@ did
       ELSE IF Len(form_exprs) > 0
       THEN [raised |-> "none", value |-> <<reduce("Or", form_exprs)>>] @@ did
       ELSE [raised |-> "NoExpression", value |-> <<>>] @@ did

NoOut == [op |-> "none"]

\* The cleaned data of a SearchForm bound to no data.
NoData ==
    [query |-> <<>>, term |-> <<>>, startYear |-> <<>>, endYear |-> <<>>, donor |-> <<>>,
     city |-> <<>>, county |-> <<>>, state |-> <<>>, country |-> <<>>]

\* The query texts forms are submitted with.
QueryTexts ==
    { <<>>,
      <<" ", " ", " ">>,
      <<"d", "o", "g">>,
      <<"1", "9", "1", "2">>,
      <<"c", "a", "p", "t", "i", "o", "n", ":", "d", "o", "g">>,
      <<"y", "e", "a", "r", ":", "1", "9", "1", "2">>,
      <<"f", "o", "o", ":", "d", "o", "g">>,
      <<"-", "c", "a", "p", "t", "i", "o", "n", ":", "d", "o", "g">>,
      <<"-", "-", "c", "a", "p", "t", "i", "o", "n", ":", "d", "o", "g">>,
      <<"-">>,
      <<"c", "a", "p", "t", "i", "o", "n", ":", "d", "o", "g", " ", "A", "N", "D", " ", "c", "a", "p", "t", "i", "o", "n", ":", "c", "a", "t">>,
      <<"c", "a", "p", "t", "i", "o", "n", ":", "d", "o", "g", " ", "O", "R", " ", "c", "a", "p", "t", "i", "o", "n", ":", "c", "a", "t">>,
      <<"c", "a", "p", "t", "i", "o", "n", ":", "c", "a", "t", " ", "c", "a", "p", "t", "i", "o", "n", ":", "b", "a", "n", "a", "n", "a">>,
      <<"c", "a", "p", "t", "i", "o", "n", ":", "b", "i", "r", "d", " ", "O", "R", " ", "c", "a", "p", "t", "i", "o", "n", ":", "d", "o", "g", " ", "|", " ", "c", "a", "p", "t", "i", "o", "n", ":", "c", "a", "t">>,
      <<"(", "c", "a", "p", "t", "i", "o", "n", ":", "b", "i", "r", "d", " ", "O", "R", " ", "c", "a", "p", "t", "i", "o", "n", ":", "d", "o", "g", ")", " ", "A", "N", "D", " ", "-", "c", "a", "p", "t", "i", "o", "n", ":", "c", "a", "t">>,
      <<"c", "a", "p", "t", "i", "o", "n", ":", "b", "i", "r", "d", " ", "O", "R", " ", "c", "a", "p", "t", "i", "o", "n", ":", "d", "o", "g", ")", " ", "A", "N", "D", " ", "c", "a", "p", "t", "i", "o", "n", ":", "c", "a", "t">>,
      <<"(", "c", "a", "p", "t", "i", "o", "n", ":", "b", "i", "r", "d", " ", "O", "R", " ", "c", "a", "p", "t", "i", "o", "n", ":", "d", "o", "g">>,
      <<"(", ")", " ", "A", "N", "D", " ", "c", "a", "p", "t", "i", "o", "n", ":", "c", "a", "t">>,
      <<"\"", "b", "l", "a", "c", "k", " ", "h", "a", "w", "k", "\"">>,
      <<"\"", "d", "o", "g">> }

\* The cleaned data forms are submitted with: a Term or Donor row or None, a year
\* or None, a choice or the empty string.
FormData ==
    [query : QueryTexts, term : {<<>>, <<1>>}, startYear : {<<>>, <<0>>, <<Y0>>},
     endYear : {<<>>, <<Y0 + 1>>}, donor : {<<>>, <<1>>}, city : {<<>>, <<"A", "m", "e", "s">>},
     county : {<<>>, <<"S", "t", "o", "r", "y">>}, state : {<<>>, <<"I", "A">>},
     country : {<<>>, <<"U", "S", "A">>}]

\* The expressions and the CollectionQuery objects cache keys are made for.
dog == <<"d", "o", "g">>
CacheExprs ==
    { None,
      YearEquals(Y0), YearEquals(Y0 + 1), YearLTE(Y0), YearGTE(Y0),
      Caption(dog), Term(dog), Tag(dog), Tag(<<"d", "o", "g", "'", ")">>),
      TermExactly(1), DonorExactly(1),
      And(YearGTE(Y0), YearLTE(Y0 + 1)), And(YearLTE(Y0 + 1), YearGTE(Y0)),
      Or(YearGTE(Y0), YearLTE(Y0 + 1)), Not(Caption(dog)),
      Maximum(Tag(dog), Term(dog)), Maximum(Term(dog), Tag(dog)),
      word_expression(dog) }

CacheRequests ==
    {[expr |-> e, user |-> "anon"] : e \in CacheExprs}
        \cup {[expr |-> e, user |-> "alice"] : e \in {None, Caption(dog), YearEquals(Y0)}}

Init ==
    /\ photos = <<>>
    /\ entry = "idle"
    /\ query = [expr |-> None, user |-> "anon"]
    /\ call = "none"
    /\ qs = {}
    /\ out = NoOut
    /\ cleaned_data = NoData
    /\ encoded = <<>>
    /\ tags = <<>>
    /\ phototags = <<>>
    /\ connected = TRUE
    /\ cutoffs = [rows |-> {}, sequence |-> 0]

\* Photo.objects.create(year=..., is_published=...)
CreatePhoto(y, pub) ==
    /\ entry = "idle"
    /\ Len(photos) < MaxPhotos
    /\ photos' = Append(photos, [year |-> y, is_published |-> pub])
    /\ UNCHANGED <<entry, query, call, qs, out, cleaned_data, encoded, tags, phototags, connected, cutoffs>>

\* WhenHave50Photos.setUpTestData: 50 published photos of the years 1900..1949.
setUpTestData ==
    /\ entry = "idle"
    /\ photos = <<>>
    /\ photos' = [i \in 1 .. FixtureSize |->
                    [year |-> FixtureFirstYear + i - 1, is_published |-> TRUE]]
    /\ UNCHANGED <<entry, query, call, qs, out, cleaned_data, encoded, tags, phototags, connected, cutoffs>>

\* Photo.objects.filter_photos(q) for the CollectionQuery q
FilterPhotos(q) ==
    LET r == filter_photos(AllIds, q)
    IN /\ entry = "idle"
       /\ Len(photos) > 0
       /\ entry' = "filter_photos"
       /\ query' = q
       /\ call' = r.call
       /\ qs' = r.result
       /\ out' = NoOut
       /\ UNCHANGED <<photos, cleaned_data, encoded, tags, phototags, connected, cutoffs>>

\* q.filter(Photo.objects.all()) for the CollectionQuery q
CollectionFilter(q) ==
    LET r == filter(q, AllIds)
    IN /\ entry = "idle"
       /\ Len(photos) > 0
       /\ entry' = "filter"
       /\ query' = q
       /\ call' = r.call
       /\ qs' = r.result
       /\ out' = NoOut
       /\ UNCHANGED <<photos, cleaned_data, encoded, tags, phototags, connected, cutoffs>>

\* qs.photo_position(photo) for a photo of the filtered set
PhotoPosition(p) ==
    /\ entry = "filter_photos"
    /\ out = NoOut
    /\ p \in qs
    /\ out' = [op |-> "photo_position", photo |-> p, value |-> photo_position(qs, p)]
    /\ UNCHANGED <<photos, entry, query, call, qs, cleaned_data, encoded, tags, phototags, connected, cutoffs>>

\* photo.page_number(queryset) for a dated photo object carrying the attributes
\* page and row, with the filtered set or None as the queryset
PageNumber(p, page, row, given) ==
    LET r == page_number([id |-> p, page |-> page, row_number |-> row],
                         IF given THEN <<qs>> ELSE <<>>)
    IN /\ entry = "filter_photos"
       /\ out = NoOut
       /\ photos[p].year # NULL
       /\ (page = <<>> \/ (row = <<>> /\ given))
       /\ out' = [op |-> "page_number", photo |-> p, page |-> page, prior |-> row,
                  given |-> given, status |-> r.status, value |-> r.value,
                  row_number |-> r.row_number]
       /\ UNCHANGED <<photos, entry, query, call, qs, cleaned_data, encoded, tags, phototags, connected, cutoffs>>

\* qs.year_index()
YearIndex ==
    /\ entry = "filter_photos"
    /\ out = NoOut
    /\ out' = [op |-> "year_index", value |-> year_index(qs)]
    /\ UNCHANGED <<photos, entry, query, call, qs, cleaned_data, encoded, tags, phototags, connected, cutoffs>>

\* qs.year_links()
YearLinks ==
    LET r == year_links(qs)
    IN /\ entry = "filter_photos"
       /\ out = NoOut
       /\ out' = [op |-> "year_links", status |-> r.status, links |-> r.links,
                  indexes |-> r.indexes, reps |-> r.reps]
       /\ UNCHANGED <<photos, entry, query, call, qs, cleaned_data, encoded, tags, phototags, connected, cutoffs>>

Next ==
    \/ \E y \in Years \cup {NULL}, pub \in BOOLEAN : CreatePhoto(y, pub)
    \/ setUpTestData
    \/ \E q \in Requests : FilterPhotos(q)
    \/ \E q \in Requests : CollectionFilter(q)
    \/ \E p \in qs : PhotoPosition(p)
    \/ \E p \in AllIds, page \in {<<>>, <<7>>}, row \in {<<>>, <<25>>}, given \in BOOLEAN :
            PageNumber(p, page, row, given)
    \/ YearIndex
    \/ YearLinks

Spec == Init /\ [][Next]_vars

\* SearchForm(data).is_valid(): the form is bound and its data cleaned.
BindForm(cd) ==
    /\ entry = "idle"
    /\ entry' = "search"
    /\ cleaned_data' = cd
    /\ UNCHANGED <<photos, query, call, qs, out, encoded, tags, phototags, connected, cutoffs>>

\* form.as_expression()
AsExpression ==
    /\ entry = "search"
    /\ out = NoOut
    /\ out' = [op |-> "as_expression"] @@ as_expression(cleaned_data)
    /\ UNCHANGED <<photos, entry, query, call, qs, cleaned_data, encoded, tags, phototags, connected, cutoffs>>

NextForm ==
    \/ \E cd \in FormData : BindForm(cd)
    \/ AsExpression

SpecForm == Init /\ [][NextForm]_vars

\* q.cache_encoding() for the CollectionQuery q
CacheEncoding(q) ==
    /\ Len(encoded) < MaxEncoded
    /\ encoded' = Append(encoded, [expr |-> q.expr, user |-> q.user,
                                   key |-> cache_encoding(q)])
    /\ UNCHANGED <<photos, entry, query, call, qs, out, cleaned_data, tags, phototags, connected, cutoffs>>

NextCache == \E q \in CacheRequests : CacheEncoding(q)

SpecCache == Init /\ [][NextCache]_vars

\* The leaves and the expressions the operations of an expression are called on
\* (ExpressionTest): every leaf class, every combination of two leaves, and the
\* combinations of combinations over a Term and a Caption.
SampleLeaves ==
    { YearEquals(1912), YearLTE(1912), YearGTE(1912),
      City(<<"W", "a", "t", "e", "r", "l", "o", "o">>),
      County(<<"B", "l", "a", "c", "k", " ", "H", "a", "w", "k">>),
      State(<<"I", "A">>), Country(<<"U", "S", "A">>),
      Term(<<"F", "a", "r", "m">>), Term(dog), Term(<<"A", "n", "i", "m", "a", "l", "s">>),
      Caption(<<"A", "n", "i", "m", "a", "l", "s">>), Tag(dog), Donor(dog) }

Combinations(S) ==
    S \cup {Not(a) : a \in S}
      \cup {[op |-> o, left |-> a, right |-> b] : o \in {"And", "Or", "Maximum"}, a \in S, b \in S}

ExprPool ==
    Combinations(SampleLeaves)
        \cup Combinations(Combinations({Term(<<"F", "a", "r", "m">>), Caption(<<"A", "n", "i", "m", "a", "l", "s">>)}))

\* expr.is_collection()
IsCollection(e) ==
    /\ entry = "idle"
    /\ out = NoOut
    /\ out' = [op |-> "is_collection", expr |-> e, value |-> is_collection(e)]
    /\ UNCHANGED <<photos, entry, query, call, qs, cleaned_data, encoded, tags, phototags, connected, cutoffs>>

\* expr.short_label()
ShortLabel(e) ==
    LET r == short_label(e)
    IN /\ entry = "idle"
       /\ out = NoOut
       /\ out' = [op |-> "short_label", expr |-> e, status |-> r.status, value |-> r.value]
       /\ UNCHANGED <<photos, entry, query, call, qs, cleaned_data, encoded, tags, phototags, connected, cutoffs>>

NextExpr ==
    \/ \E e \in ExprPool : IsCollection(e)
    \/ \E e \in ExprPool : ShortLabel(e)

SpecExpr == Init /\ [][NextExpr]_vars

\* The expressions searched with (WhenHave50Photos.testSearchShouldSupportBooleanLogic
\* searches with YearEquals(1911) & YearEquals(1912), YearEquals(1911) |
\* YearEquals(1912) and the negation of each): the year leaves, their negations and
\* the conjunctions and disjunctions of two of those.
YearLeaves == {YearEquals(Y0), YearEquals(Y0 + 1), YearGTE(Y0 + 1), YearLTE(Y0 + 1)}

Negations(S) == S \cup {Not(a) : a \in S}

SearchExprs ==
    Negations({[op |-> o, left |-> a, right |-> b] :
                    o \in {"And", "Or"}, a \in Negations(YearLeaves), b \in {YearEquals(Y0 + 1), Not(YearGTE(Y0 + 1))}}
              \cup {And(YearEquals(1911), YearEquals(1912)), Or(YearEquals(1911), YearEquals(1912))}
              \cup YearLeaves)

\* The expressions shaken out: expressions with a double negation or a combination
\* of an expression with itself somewhere in them, and expressions without.
ShakeoutExprs ==
    UNION {{ a, Not(a), Not(Not(a)), Not(Not(Not(a))), Not(Not(Not(Not(a)))),
             And(a, a), Or(a, a), Maximum(a, a), And(a, Not(Not(a))),
             Or(And(a, a), Not(a)), And(Or(a, a), a), Not(And(Not(Not(a)), a)),
             Maximum(Not(Not(a)), Or(a, YearLTE(Y0))), And(a, YearLTE(Y0)),
             Not(Or(Not(a), Not(a))) } : a \in {YearEquals(Y0), YearGTE(Y0 + 1)}}

\* expr.as_search(Photo.objects, user)
Search(e, user) ==
    /\ entry = "idle"
    /\ Len(photos) > 0
    /\ entry' = "as_search"
    /\ out' = [op |-> "as_search", expr |-> e, user |-> user,
               value |-> as_search(e, AllIds, user)]
    /\ UNCHANGED <<photos, query, call, qs, cleaned_data, encoded, tags, phototags, connected, cutoffs>>

\* expr.shakeout()
Shakeout(e) ==
    /\ entry = "idle"
    /\ Len(photos) > 0
    /\ entry' = "shakeout"
    /\ out' = [op |-> "shakeout", expr |-> e, value |-> shakeout(e)]
    /\ UNCHANGED <<photos, query, call, qs, cleaned_data, encoded, tags, phototags, connected, cutoffs>>

NextSearch ==
    \/ \E y \in Years \cup {NULL}, pub \in BOOLEAN : CreatePhoto(y, pub)
    \/ setUpTestData
    \/ \E e \in SearchExprs : Search(e, "anon")
    \/ \E e \in ShakeoutExprs : Shakeout(e)

SpecSearch == Init /\ [][NextSearch]_vars

(***************************************************************************)
(* Tag and PhotoTag, and the signal handlers that remove dead tags         *)
(* (archive/models.py).                                                    *)
(***************************************************************************)
\* The photos tagged: the two photos of PhotoTagTest.setUp.
PhotoIds == {1, 2}

\* The tables and the connection of the handler, as one value.
Database == [tags |-> tags, phototags |-> phototags, connected |-> connected]

\* tag.phototag_set: the PhotoTag rows of the tag t
phototag_set(db, t) ==
    {i \in 1 .. Len(db.phototags) : db.phototags[i].live /\ db.phototags[i].tag = t}

\* The deletion of the PhotoTag rows S: the rows are deleted before post_delete is
\* sent for any of them.
delete_rows(db, S) ==
    [db EXCEPT !.phototags =
        [i \in 1 .. Len(db.phototags) |->
            IF i \in S THEN [db.phototags[i] EXCEPT !.live = FALSE] ELSE db.phototags[i]]]

\* tag.delete() without connect_deadtags on post_delete of the Tag.
tag_delete_stays_disconnected(db, t) ==
    LET disconnected == [db EXCEPT !.connected = FALSE]
        cascaded == delete_rows(disconnected, phototag_set(disconnected, t))
    IN [cascaded EXCEPT !.tags[t] = FALSE]

\* tag.delete() for the Tag t: pre_delete of the Tag runs disconnect_deadtags; the
\* PhotoTag rows of the tag are deleted with it (on_delete=CASCADE), their post_delete
\* finding remove_deadtags disconnected; post_delete of the Tag runs
\* connect_deadtags.
tag_delete(db, t) ==
    LET disconnected == [db EXCEPT !.connected = FALSE]
        cascaded == delete_rows(disconnected, phototag_set(disconnected, t))
        deleted == [cascaded EXCEPT !.tags[t] = FALSE]
    IN [deleted EXCEPT !.connected = TRUE]

\* remove_deadtags with the tag removed when one PhotoTag is left.
remove_deadtags_one_left(db, t) ==
    IF ~db.tags[t] THEN [status |-> "DoesNotExist", db |-> db]
    ELSE IF Cardinality(phototag_set(db, t)) <= 1
    THEN [status |-> "ok", db |-> tag_delete(db, t)]
    ELSE [status |-> "ok", db |-> db]

\* remove_deadtags(sender, instance) for a deleted PhotoTag instance of the tag t whose
\* tag attribute is not loaded: instance.tag reads the Tag row, which fails with
\* Tag.DoesNotExist when the row is gone.
remove_deadtags(db, t) ==
    IF ~db.tags[t] THEN [status |-> "DoesNotExist", db |-> db]
    ELSE IF Cardinality(phototag_set(db, t)) = 0
    THEN [status |-> "ok", db |-> tag_delete(db, t)]
    ELSE [status |-> "ok", db |-> db]

\* post_delete sent for the deleted PhotoTag rows S in the order of their primary
\* keys, up to the first receiver that raises.
RECURSIVE post_delete(_, _)
post_delete(db, S) ==
    IF S = {} \/ ~db.connected THEN [status |-> "ok", db |-> db]
    ELSE LET i == CHOOSE i \in S : \A j \in S : i <= j
             r == remove_deadtags(db, db.phototags[i].tag)
         IN IF r.status # "ok" THEN r ELSE post_delete(r.db, S \ {i})

\* The deletion of the PhotoTag rows S in one transaction: the state after it, which
\* is the state before it when a receiver raised (the handlers stay connected).
delete_phototags(db, S) ==
    LET r == post_delete(delete_rows(db, S), S)
    IN IF r.status = "ok" THEN r ELSE [status |-> r.status, db |-> db]

\* For each tag of the rows S, how many other PhotoTag rows have the tag.
others(db, S) ==
    {[tag |-> db.phototags[i].tag,
      others |-> Cardinality(phototag_set(db, db.phototags[i].tag) \ S)] : i \in S}

\* Tag.objects.create(tag=...)
CreateTag ==
    /\ Len(tags) < MaxTags
    /\ tags' = Append(tags, TRUE)
    /\ out' = NoOut
    /\ UNCHANGED <<photos, entry, query, call, qs, cleaned_data, encoded, phototags, connected, cutoffs>>

\* PhotoTag.objects.create(tag=t, photo=ph, accepted=False)
CreatePhotoTag(t, ph) ==
    /\ Len(phototags) < MaxPhotoTags
    /\ t \in 1 .. Len(tags)
    /\ tags[t]
    /\ phototags' = Append(phototags, [tag |-> t, photo |-> ph, live |-> TRUE])
    /\ out' = NoOut
    /\ UNCHANGED <<photos, entry, query, call, qs, cleaned_data, encoded, tags, connected, cutoffs>>

\* phototag.delete() for the PhotoTag i
DeletePhotoTag(i) ==
    LET r == delete_phototags(Database, {i})
    IN /\ i \in 1 .. Len(phototags)
       /\ phototags[i].live
       /\ tags' = r.db.tags
       /\ phototags' = r.db.phototags
       /\ connected' = r.db.connected
       /\ out' = [op |-> "delete_phototag", status |-> r.status, rows |-> {i},
                  deleted |-> others(Database, {i})]
       /\ UNCHANGED <<photos, entry, query, call, qs, cleaned_data, encoded, cutoffs>>

\* photo.delete() for the photo ph, which deletes the PhotoTag rows of the photo with
\* it (on_delete=CASCADE)
DeletePhoto(ph) ==
    LET S == {i \in 1 .. Len(phototags) : phototags[i].live /\ phototags[i].photo = ph}
        r == delete_phototags(Database, S)
    IN /\ S # {}
       /\ tags' = r.db.tags
       /\ phototags' = r.db.phototags
       /\ connected' = r.db.connected
       /\ out' = [op |-> "delete_photo", status |-> r.status, rows |-> S,
                  deleted |-> others(Database, S)]
       /\ UNCHANGED <<photos, entry, query, call, qs, cleaned_data, encoded, cutoffs>>

\* tag.delete() for the Tag t
DeleteTag(t) ==
    LET db == tag_delete(Database, t)
    IN /\ t \in 1 .. Len(tags)
       /\ tags[t]
       /\ tags' = db.tags
       /\ phototags' = db.phototags
       /\ connected' = db.connected
       /\ out' = [op |-> "delete_tag", status |-> "ok", tag |-> t,
                  rows |-> phototag_set(Database, t),
                  deleted |-> others(Database, phototag_set(Database, t))]
       /\ UNCHANGED <<photos, entry, query, call, qs, cleaned_data, encoded, cutoffs>>

NextTags ==
    \/ CreateTag
    \/ \E t \in 1 .. MaxTags, ph \in PhotoIds : CreatePhotoTag(t, ph)
    \/ \E i \in 1 .. MaxPhotoTags : DeletePhotoTag(i)
    \/ \E ph \in PhotoIds : DeletePhoto(ph)
    \/ \E t \in 1 .. MaxTags : DeleteTag(t)

SpecTags == Init /\ [][NextTags]_vars

\* The query texts of ParserTest.
TestTexts ==
    { <<"y", "e", "a", "r", ":", "1", "9", "1", "2">>,
      <<"c", "a", "p", "t", "i", "o", "n", ":", "d", "o", "g">>,
      <<"d", "o", "g">>,
      <<"1", "9", "1", "2">>,
      <<"-", "c", "a", "p", "t", "i", "o", "n", ":", "d", "o", "g">>,
      <<"c", "a", "p", "t", "i", "o", "n", ":", "d", "o", "g", " ", "A", "N", "D", " ", "c", "a", "p", "t", "i", "o", "n", ":", "c", "a", "t">>,
      <<"c", "a", "p", "t", "i", "o", "n", ":", "d", "o", "g", " ", "O", "R", " ", "c", "a", "p", "t", "i", "o", "n", ":", "c", "a", "t">>,
      <<"c", "a", "p", "t", "i", "o", "n", ":", "b", "i", "r", "d", " ", "O", "R", " ", "c", "a", "p", "t", "i", "o", "n", ":", "d", "o", "g", " ", "|", " ", "c", "a", "p", "t", "i", "o", "n", ":", "c", "a", "t", " ", "O", "R", " ", "c", "a", "p", "t", "i", "o", "n", ":", "b", "a", "n", "a", "n", "a">>,
      <<"c", "a", "p", "t", "i", "o", "n", ":", "b", "i", "r", "d", " ", "A", "N", "D", " ", "c", "a", "p", "t", "i", "o", "n", ":", "d", "o", "g", " ", "O", "R", " ", "c", "a", "p", "t", "i", "o", "n", ":", "c", "a", "t", " ", "A", "N", "D", " ", "c", "a", "p", "t", "i", "o", "n", ":", "b", "a", "n", "a", "n", "a">>,
      <<"-", "c", "a", "p", "t", "i", "o", "n", ":", "b", "i", "r", "d", " ", "A", "N", "D", " ", "c", "a", "p", "t", "i", "o", "n", ":", "d", "o", "g", " ", "O", "R", " ", "c", "a", "p", "t", "i", "o", "n", ":", "c", "a", "t", " ", "A", "N", "D", " ", "c", "a", "p", "t", "i", "o", "n", ":", "b", "a", "n", "a", "n", "a">>,
      <<"(", "c", "a", "p", "t", "i", "o", "n", ":", "b", "i", "r", "d", ")">>,
      <<"c", "a", "p", "t", "i", "o", "n", ":", "b", "i", "r", "d", " ", "A", "N", "D", " ", "(", "c", "a", "p", "t", "i", "o", "n", ":", "d", "o", "g", " ", "O", "R", " ", "c", "a", "p", "t", "i", "o", "n", ":", "c", "a", "t", ")", " ", "A", "N", "D", " ", "c", "a", "p", "t", "i", "o", "n", ":", "b", "a", "n", "a", "n", "a">>,
      <<"(", "c", "a", "p", "t", "i", "o", "n", ":", "b", "i", "r", "d", " ", "O", "R", " ", "c", "a", "p", "t", "i", "o", "n", ":", "d", "o", "g", ")", " ", "A", "N", "D", " ", "(", "c", "a", "p", "t", "i", "o", "n", ":", "c", "a", "t", " ", "O", "R", " ", "c", "a", "p", "t", "i", "o", "n", ":", "b", "a", "n", "a", "n", "a", ")">>,
      <<"(", "(", "c", "a", "p", "t", "i", "o", "n", ":", "b", "i", "r", "d", " ", "O", "R", " ", "c", "a", "p", "t", "i", "o", "n", ":", "d", "o", "g", ")", " ", "A", "N", "D", " ", "(", "c", "a", "p", "t", "i", "o", "n", ":", "c", "a", "t", " ", "c", "a", "p", "t", "i", "o", "n", ":", "b", "a", "n", "a", "n", "a", ")", ")">>,
      <<"-", "(", "c", "a", "p", "t", "i", "o", "n", ":", "b", "i", "r", "d", ")">>,
      <<"c", "a", "p", "t", "i", "o", "n", ":", "b", "i", "r", "d", " ", "A", "N", "D", " ", "-", "(", "c", "a", "p", "t", "i", "o", "n", ":", "d", "o", "g", " ", "O", "R", " ", "c", "a", "p", "t", "i", "o", "n", ":", "c", "a", "t", ")", " ", "A", "N", "D", " ", "c", "a", "p", "t", "i", "o", "n", ":", "b", "a", "n", "a", "n", "a">>,
      <<"-", "(", "c", "a", "p", "t", "i", "o", "n", ":", "b", "i", "r", "d", " ", "O", "R", " ", "c", "a", "p", "t", "i", "o", "n", ":", "d", "o", "g", ")", " ", "A", "N", "D", " ", "(", "-", "c", "a", "p", "t", "i", "o", "n", ":", "c", "a", "t", " ", "O", "R", " ", "c", "a", "p", "t", "i", "o", "n", ":", "b", "a", "n", "a", "n", "a", ")">>,
      <<"(", "(", "c", "a", "p", "t", "i", "o", "n", ":", "b", "i", "r", "d", ")", ")">>,
      <<" ", "-", "(", " ", "c", "a", "p", "t", "i", "o", "n", ":", "b", "i", "r", "d", " ", "O", "R", " ", "c", "a", "p", "t", "i", "o", "n", ":", "d", "o", "g", " ", " ", ")", "A", "N", "D", "(", "-", " ", "c", "a", "p", "t", "i", "o", "n", ":", "c", "a", "t", " ", "O", "R", " ", "c", "a", "p", "t", "i", "o", "n", ":", "b", "a", "n", "a", "n", "a", ")", " ">>,
      <<"c", "a", "p", "t", "i", "o", "n", ":", "b", "i", "r", "d", " ", "O", "R", " ", "c", "a", "p", "t", "i", "o", "n", ":", "d", "o", "g", ")", " ", "A", "N", "D", " ", "(", "-", "c", "a", "p", "t", "i", "o", "n", ":", "c", "a", "t", " ", "O", "R", " ", "c", "a", "p", "t", "i", "o", "n", ":", "b", "a", "n", "a", "n", "a", ")">>,
      <<"(", "c", "a", "p", "t", "i", "o", "n", ":", "b", "i", "r", "d", " ", "O", "R", " ", "c", "a", "p", "t", "i", "o", "n", ":", "d", "o", "g", ")", " ", "A", "N", "D", " ", "(", "-", "c", "a", "p", "t", "i", "o", "n", ":", "c", "a", "t", " ", "O", "R", " ", "c", "a", "p", "t", "i", "o", "n", ":", "b", "a", "n", "a", "n", "a">>,
      <<"(", ")", " ", "A", "N", "D", " ", "(", "-", "c", "a", "p", "t", "i", "o", "n", ":", "c", "a", "t", " ", "O", "R", " ", "c", "a", "p", "t", "i", "o", "n", ":", "b", "a", "n", "a", "n", "a">> }

\* The texts the parser is run on besides: up to MaxLexemes lexemes separated by
\* spaces, and chains of up to MaxTerms typed terms with an operator between each
\* two.
MaxLexemes == 3
MaxTerms == 3

PARSER_LEXEMES == <<
    <<"c", "a", "p", "t", "i", "o", "n", ":", "c", "a", "t">>,
    <<"c", "a", "p", "t", "i", "o", "n", ":", "d", "o", "g">>,
    <<"-">>,
    <<"(">>,
    <<")">>,
    <<"A", "N", "D">>,
    <<"O", "R">>,
    <<"|">>,
    <<"d", "o", "g">>,
    <<"1", "9", "1", "2">> >>

CHAIN_TERMS == <<
    <<"c", "a", "p", "t", "i", "o", "n", ":", "c", "a", "t">>,
    <<"-", "c", "a", "p", "t", "i", "o", "n", ":", "d", "o", "g">>,
    <<"c", "a", "p", "t", "i", "o", "n", ":", "b", "i", "r", "d">> >>

CHAIN_OPS == << <<"A", "N", "D">>, <<"O", "R">>, <<"|">> >>

\* The lexemes picked by ls, separated by spaces.
RECURSIVE join(_, _)
join(table, ls) ==
    IF ls = <<>> THEN <<>>
    ELSE IF Len(ls) = 1 THEN table[ls[1]]
    ELSE table[ls[1]] \o <<" ">> \o join(table, Tail(ls))

\* The terms picked by ts with the operators picked by os between them.
RECURSIVE chain(_, _)
chain(ts, os) ==
    IF Len(ts) = 1 THEN CHAIN_TERMS[ts[1]]
    ELSE CHAIN_TERMS[ts[1]] \o <<" ">> \o CHAIN_OPS[os[1]] \o <<" ">> \o chain(Tail(ts), Tail(os))

LexemeTexts ==
    UNION {{join(PARSER_LEXEMES, ls) : ls \in [1 .. k -> 1 .. Len(PARSER_LEXEMES)]} :
                k \in 0 .. MaxLexemes}

ChainTexts ==
    UNION {{chain(ts, os) : ts \in [1 .. n -> 1 .. Len(CHAIN_TERMS)],
                            os \in [1 .. n - 1 -> 1 .. Len(CHAIN_OPS)]} :
                n \in 2 .. MaxTerms}

ParserTexts == TestTexts \cup LexemeTexts \cup ChainTexts

\* Parser.tokenize(text)
ParserTokenize(text) ==
    LET r == tokenize(text)
    IN /\ entry = "idle"
       /\ entry' = "parser"
       /\ out' = [op |-> "tokenize", text |-> text, err |-> r.err, tokens |-> r.tokens,
                  offset |-> r.offset]
       /\ UNCHANGED <<photos, query, call, qs, cleaned_data, encoded, tags, phototags, connected, cutoffs>>

\* parser.parse() on the tokens of the text
ParserParse ==
    LET r == parse(out.tokens)
    IN /\ entry = "parser"
       /\ out.op = "tokenize"
       /\ out.err = "none"
       /\ out' = [op |-> "parse", text |-> out.text, tokens |-> out.tokens, err |-> r.err,
                  e |-> r.e, index |-> r.index]
       /\ UNCHANGED <<photos, entry, query, call, qs, cleaned_data, encoded, tags, phototags, connected, cutoffs>>

NextParser ==
    \/ \E text \in ParserTexts : ParserTokenize(text)
    \/ ParserParse

SpecParser == Init /\ [][NextParser]_vars

(***************************************************************************)
(* Tags submitted for photos and the tags a viewer is shown                *)
(* (archive/forms.py TagForm, archive/models.py Photo.get_accepted_tags).  *)
(* Here tags is the Tag table, tags[t] the stored text of the Tag with     *)
(* primary key t, and phototags the PhotoTag table with the accepted flag  *)
(* and the creators of each row.                                           *)
(***************************************************************************)
\* LowerCaseCharField.get_prep_value(value), the value a Tag's text is stored and looked
\* up with, for the texts submitted.
get_prep_value ==
    [text \in {dog, <<"D", "o", "g">>, <<"c", "a", "t">>} |-> lower(text)]

\* TagForm.add_tag with PhotoTag.objects.create in place of get_or_create.
add_tag_always_create(text, ph) ==
    LET key == get_prep_value[text]
        found == {t \in 1 .. Len(tags) : tags[t] = key}
        t == IF found = {} THEN Len(tags) + 1 ELSE CHOOSE t \in found : TRUE
        rows == {i \in 1 .. Len(phototags) :
                    phototags[i].tag = t /\ phototags[i].photo = ph}
    IN /\ found = {} => Len(tags) < MaxTags
       /\ Len(phototags) < MaxSubmissions
       /\ tags' = IF found = {} THEN Append(tags, key) ELSE tags
       /\ phototags' = Append(phototags,
                            [tag |-> t, photo |-> ph, accepted |-> FALSE, creator |-> {}])
       /\ out' = [op |-> "add_tag", text |-> text, status |-> "ok", tag |-> t, photo |-> ph,
                  rows |-> Cardinality(rows),
                  accepted |-> \E i \in rows : phototags[i].accepted]
       /\ UNCHANGED <<photos, entry, query, call, qs, cleaned_data, encoded, connected, cutoffs>>

\* TagForm.add_tag(photo) for cleaned_data['tag'] = text. Tag.tag is a
\* LowerCaseCharField: the lookup and the stored value are the text in lower case.
\* get_or_create reads the row when there is one, creates it (accepted False, no
\* creator) when there is none and raises MultipleObjectsReturned when there are more.
add_tag(text, ph) ==
    LET key == get_prep_value[text]
        found == {t \in 1 .. Len(tags) : tags[t] = key}
        t == IF found = {} THEN Len(tags) + 1 ELSE CHOOSE t \in found : TRUE
        rows == {i \in 1 .. Len(phototags) :
                    phototags[i].tag = t /\ phototags[i].photo = ph}
    IN /\ found = {} => Len(tags) < MaxTags
       /\ rows = {} => Len(phototags) < MaxSubmissions
       /\ tags' = IF found = {} THEN Append(tags, key) ELSE tags
       /\ phototags' = IF rows = {}
                       THEN Append(phototags,
                                [tag |-> t, photo |-> ph, accepted |-> FALSE, creator |-> {}])
                       ELSE phototags
       /\ out' = [op |-> "add_tag", text |-> text,
                  status |-> IF Cardinality(rows) > 1 THEN "MultipleObjectsReturned" ELSE "ok",
                  tag |-> t, photo |-> ph, rows |-> Cardinality(rows),
                  accepted |-> \E i \in rows : phototags[i].accepted]
       /\ UNCHANGED <<photos, entry, query, call, qs, cleaned_data, encoded, connected, cutoffs>>

\* Tag.objects.create(tag=text) when no Tag has the text, then
\* PhotoTag.objects.create(tag=tag, photo=ph, accepted=...) and
\* phototag.creator.add(user) for each of the users.
PhotoTagCreate(text, ph, accepted, users) ==
    LET key == get_prep_value[text]
        found == {t \in 1 .. Len(tags) : tags[t] = key}
        t == IF found = {} THEN Len(tags) + 1 ELSE CHOOSE t \in found : TRUE
    IN /\ Len(phototags) < MaxSubmissions
       /\ found = {} => Len(tags) < MaxTags
       /\ tags' = IF found = {} THEN Append(tags, key) ELSE tags
       /\ phototags' = Append(phototags,
                        [tag |-> t, photo |-> ph, accepted |-> accepted, creator |-> users])
       /\ out' = NoOut
       /\ UNCHANGED <<photos, entry, query, call, qs, cleaned_data, encoded, connected, cutoffs>>

\* Photo.get_accepted_tags without distinct().
get_accepted_tags_with_repeats(ph, user) ==
    LET joined(i) == IF user = NULL \/ phototags[i].creator = {} THEN 1
                     ELSE Cardinality(phototags[i].creator)
        selected == [i \in 1 .. Len(phototags) |->
            IF phototags[i].accepted THEN joined(i)
            ELSE IF user # NULL /\ user \in phototags[i].creator THEN 1 ELSE 0]
        of(t) == {i \in 1 .. Len(phototags) :
                    phototags[i].photo = ph /\ phototags[i].tag = t}
    IN /\ out.op # "get_accepted_tags"
       /\ out' = [op |-> "get_accepted_tags", photo |-> ph, user |-> user,
                  value |-> [t \in 1 .. Len(tags) |-> SumOver(of(t), selected)]]
       /\ UNCHANGED <<photos, entry, query, call, qs, cleaned_data, encoded, tags, phototags,
                      connected, cutoffs>>

\* photo.get_accepted_tags(user), user being NULL for no user: the tags of the photo
\* (self.tags, the Tag rows joined to the PhotoTag rows of the photo) filtered, on the
\* same PhotoTag rows, by accepted or, when a user is given, by the user being one of
\* the creators (a left join to the creators, one joined row for each creator);
\* distinct() keeps one row of each tag. The value is the number of rows of each tag.
get_accepted_tags(ph, user) ==
    LET joined(i) == IF user = NULL \/ phototags[i].creator = {} THEN 1
                     ELSE Cardinality(phototags[i].creator)
        selected == [i \in 1 .. Len(phototags) |->
            IF phototags[i].accepted THEN joined(i)
            ELSE IF user # NULL /\ user \in phototags[i].creator THEN 1 ELSE 0]
        of(t) == {i \in 1 .. Len(phototags) :
                    phototags[i].photo = ph /\ phototags[i].tag = t}
    IN /\ out.op # "get_accepted_tags"
       /\ out' = [op |-> "get_accepted_tags", photo |-> ph, user |-> user,
                  value |-> [t \in 1 .. Len(tags) |->
                                IF SumOver(of(t), selected) > 0 THEN 1 ELSE 0]]
       /\ UNCHANGED <<photos, entry, query, call, qs, cleaned_data, encoded, tags, phototags,
                      connected, cutoffs>>

NextTagForm ==
    \/ \E text \in DOMAIN get_prep_value, ph \in PhotoIds : add_tag(text, ph)
    \/ \E text \in {dog, <<"c", "a", "t">>}, ph \in PhotoIds, accepted \in BOOLEAN,
          users \in {{}, {1}, {1, 2}} : PhotoTagCreate(text, ph, accepted, users)
    \/ \E ph \in PhotoIds, user \in {NULL, 1, 2} : get_accepted_tags(ph, user)

SpecTagForm == Init /\ [][NextTagForm]_vars

(***************************************************************************)
(* The urls of collectible objects (archive/models.py Collectible, Donor,  *)
(* Term, Tag) and the links between pages                                  *)
(* (archive/templatetags/widgets.py).                                      *)
(* A QueryDict is a list of [key, values], the keys in the order they were *)
(* set; a url is the list of the characters of its query string after the  *)
(* path reverse(viewname) and "?", the path being kept as one element.     *)
(***************************************************************************)
\* The QueryDicts urls are asked for with: none or an empty one, the one
\* make_querydict(constraint) makes, and ones that hold a key of a collectible object or
\* a key with two values.
QueryDicts ==
    { <<>>,
      <<[key |-> <<"c", "o", "n", "s", "t", "r", "a", "i", "n", "t">>,
         values |-> << <<"y", "e", "a", "r", ":", "1", "9", "5", "0">> >>]>>,
      <<[key |-> <<"d", "o", "n", "o", "r">>, values |-> << <<"9">> >>]>>,
      <<[key |-> <<"t", "e", "r", "m">>, values |-> << <<"7">>, <<"8">> >>],
        [key |-> <<"c", "o", "n", "s", "t", "r", "a", "i", "n", "t">>,
         values |-> << <<"t", "e", "s", "t", " ", "t", "a", "g">> >>]>> }

\* Collectible.format_url with a new QueryDict in place of every params.
format_url_new_params(kind, obj, viewname, params) ==
    LET key == CASE kind = "Donor" -> <<"d", "o", "n", "o", "r">>
                 [] kind = "Term" -> <<"t", "e", "r", "m">>
                 [] kind = "Tag" -> <<"t", "a", "g">>
        HEXDIGITS == <<"0", "1", "2", "3", "4", "5", "6", "7", "8", "9",
                       "A", "B", "C", "D", "E", "F">>
        quoted(c) ==
            IF \/ IsDigit(c)
               \/ ord(c) \in 65 .. 90
               \/ ord(c) \in 97 .. 122
               \/ c \in {"_", ".", "-", "~"}
            THEN <<c>>
            ELSE IF c = " " THEN <<"+">>
            ELSE <<"%", HEXDIGITS[(ord(c) \div 16) + 1], HEXDIGITS[(ord(c) % 16) + 1]>>
        RECURSIVE quote_plus(_)
        quote_plus(s) == IF s = <<>> THEN <<>> ELSE quoted(Head(s)) \o quote_plus(Tail(s))
        RECURSIVE pairs(_, _)
        pairs(k, vs) ==
            IF vs = <<>> THEN <<>>
            ELSE <<quote_plus(k) \o <<"=">> \o quote_plus(Head(vs))>> \o pairs(k, Tail(vs))
        RECURSIVE lists(_)
        lists(qd) == IF qd = <<>> THEN <<>> ELSE pairs(qd[1].key, qd[1].values) \o lists(Tail(qd))
        RECURSIVE joined(_)
        joined(ps) ==
            IF ps = <<>> THEN <<>>
            ELSE IF Len(ps) = 1 THEN ps[1]
            ELSE ps[1] \o <<"&">> \o joined(Tail(ps))
        urlencode(qd) == joined(lists(qd))
        given == <<>>
        at == {i \in 1 .. Len(given) : given[i].key = key}
        set == IF at = {} THEN Append(given, [key |-> key, values |-> <<int_to_str(obj)>>])
               ELSE [i \in 1 .. Len(given) |->
                        IF i \in at THEN [key |-> key, values |-> <<int_to_str(obj)>>]
                        ELSE given[i]]
    IN /\ out' = IF kind = "Tag"
                 THEN [op |-> "format_url", kind |-> kind, obj |-> obj, viewname |-> viewname,
                       params |-> params, raised |-> "TypeError"]
                 ELSE [op |-> "format_url", kind |-> kind, obj |-> obj, viewname |-> viewname,
                       params |-> params, raised |-> "none",
                       value |-> <<viewname, "?">> \o urlencode(set)]
       /\ UNCHANGED <<photos, entry, query, call, qs, cleaned_data, encoded, tags, phototags,
                      connected, cutoffs>>

\* obj.format_url(viewname, params) for a Donor or a Term with primary key obj, or a
\* Tag with the text obj (get_absolute_url calls it with 'search-results',
\* get_embedded_url with 'embedded-search-results'). Params that are None or empty are
\* replaced by a new QueryDict. Donor.encode_params and Term.encode_params set the key
\* 'donor' or 'term' to the primary key, which replaces the values the key had, and
\* return params.urlencode(): for each key in order and each of its values,
\* quote_plus(key) = quote_plus(str(value)), joined by "&". Tag.encode_params is defined
\* with self as its only parameter, so the call self.encode_params(params) raises
\* TypeError.
format_url(kind, obj, viewname, params) ==
    LET key == CASE kind = "Donor" -> <<"d", "o", "n", "o", "r">>
                 [] kind = "Term" -> <<"t", "e", "r", "m">>
                 [] kind = "Tag" -> <<"t", "a", "g">>
        HEXDIGITS == <<"0", "1", "2", "3", "4", "5", "6", "7", "8", "9",
                       "A", "B", "C", "D", "E", "F">>
        quoted(c) ==
            IF \/ IsDigit(c)
               \/ ord(c) \in 65 .. 90
               \/ ord(c) \in 97 .. 122
               \/ c \in {"_", ".", "-", "~"}
            THEN <<c>>
            ELSE IF c = " " THEN <<"+">>
            ELSE <<"%", HEXDIGITS[(ord(c) \div 16) + 1], HEXDIGITS[(ord(c) % 16) + 1]>>
        RECURSIVE quote_plus(_)
        quote_plus(s) == IF s = <<>> THEN <<>> ELSE quoted(Head(s)) \o quote_plus(Tail(s))
        RECURSIVE pairs(_, _)
        pairs(k, vs) ==
            IF vs = <<>> THEN <<>>
            ELSE <<quote_plus(k) \o <<"=">> \o quote_plus(Head(vs))>> \o pairs(k, Tail(vs))
        RECURSIVE lists(_)
        lists(qd) == IF qd = <<>> THEN <<>> ELSE pairs(qd[1].key, qd[1].values) \o lists(Tail(qd))
        RECURSIVE joined(_)
        joined(ps) ==
            IF ps = <<>> THEN <<>>
            ELSE IF Len(ps) = 1 THEN ps[1]
            ELSE ps[1] \o <<"&">> \o joined(Tail(ps))
        urlencode(qd) == joined(lists(qd))
        given == IF Len(params) = 0 THEN <<>> ELSE params
        at == {i \in 1 .. Len(given) : given[i].key = key}
        set == IF at = {} THEN Append(given, [key |-> key, values |-> <<int_to_str(obj)>>])
               ELSE [i \in 1 .. Len(given) |->
                        IF i \in at THEN [key |-> key, values |-> <<int_to_str(obj)>>]
                        ELSE given[i]]
    IN /\ out' = IF kind = "Tag"
                 THEN [op |-> "format_url", kind |-> kind, obj |-> obj, viewname |-> viewname,
                       params |-> params, raised |-> "TypeError"]
                 ELSE [op |-> "format_url", kind |-> kind, obj |-> obj, viewname |-> viewname,
                       params |-> params, raised |-> "none",
                       value |-> <<viewname, "?">> \o urlencode(set)]
       /\ UNCHANGED <<photos, entry, query, call, qs, cleaned_data, encoded, tags, phototags,
                      connected, cutoffs>>

\* page_links with the url of page 1 for Previous.
page_links_previous_first(number, num_pages) ==
    LET link(label, shown, page) ==
            IF shown
            THEN [label |-> label, url |-> [page |-> page, json |-> FALSE],
                  url_json |-> [page |-> page, json |-> TRUE]]
            ELSE [label |-> label]
    IN /\ number \in 1 .. num_pages
       /\ out' = [op |-> "page_links", number |-> number, num_pages |-> num_pages,
                  links |-> << link("First", number # 1, 1),
                               link("Previous", number # 1, 1),
                               link("Next", number < num_pages, number + 1),
                               link("Last", number # num_pages, num_pages) >>]
       /\ UNCHANGED <<photos, entry, query, call, qs, cleaned_data, encoded, tags, phototags,
                      connected, cutoffs>>

\* page_links(formatter, page_obj) for the page page_obj.number of a paginator of
\* num_pages pages: has_next() is number < num_pages, previous_page_number() is
\* number - 1 and next_page_number() number + 1. formatter.page_url(page, json) is kept
\* as [page, json]; a link without a url has the label only.
page_links(number, num_pages) ==
    LET link(label, shown, page) ==
            IF shown
            THEN [label |-> label, url |-> [page |-> page, json |-> FALSE],
                  url_json |-> [page |-> page, json |-> TRUE]]
            ELSE [label |-> label]
    IN /\ number \in 1 .. num_pages
       /\ out' = [op |-> "page_links", number |-> number, num_pages |-> num_pages,
                  links |-> << link("First", number # 1, 1),
                               link("Previous", number # 1, number - 1),
                               link("Next", number < num_pages, number + 1),
                               link("Last", number # num_pages, num_pages) >>]
       /\ UNCHANGED <<photos, entry, query, call, qs, cleaned_data, encoded, tags, phototags,
                      connected, cutoffs>>

NextTemplateTags ==
    \/ \E kind \in {"Donor", "Term"}, obj \in 1 .. MaxObjects,
          viewname \in {"search-results", "embedded-search-results"},
          params \in QueryDicts : format_url(kind, obj, viewname, params)
    \/ \E obj \in DOMAIN get_prep_value,
          viewname \in {"search-results", "embedded-search-results"},
          params \in QueryDicts : format_url("Tag", get_prep_value[obj], viewname, params)
    \/ \E number \in 1 .. MaxPages, num_pages \in 1 .. MaxPages : page_links(number, num_pages)

SpecTemplateTags == Init /\ [][NextTemplateTags]_vars

(***************************************************************************)
(* NewCutoff (archive/models.py), the one row that holds the cutoff date   *)
(* of "new" photos. cutoffs.rows is the table, a set of [pk, date], and    *)
(* cutoffs.sequence the last primary key the database gave out.            *)
(***************************************************************************)
\* NewCutoff.save without the test for an existing row.
save_unguarded(instance) ==
    LET row == IF instance.pk = NULL
               THEN [pk |-> cutoffs.sequence + 1, date |-> instance.date]
               ELSE instance
    IN /\ instance.pk = NULL => cutoffs.sequence < MaxCutoffs
       /\ cutoffs' = [rows |-> {r \in cutoffs.rows : r.pk # row.pk} \cup {row},
                      sequence |-> IF instance.pk = NULL THEN cutoffs.sequence + 1
                                   ELSE cutoffs.sequence]
       /\ out' = [op |-> "save", instance |-> instance, before |-> cutoffs.rows,
                  raised |-> "none", saved |-> row]
       /\ UNCHANGED <<photos, entry, query, call, qs, cleaned_data, encoded, tags, phototags,
                      connected>>

\* instance.save() for a NewCutoff instance [pk, date], pk being NULL for an instance
\* that was never saved: ValidationError when the instance has no pk and a row exists;
\* otherwise Model.save, which inserts an instance without a pk under the next primary
\* key and updates the row of an instance with one.
save(instance) ==
    LET row == IF instance.pk = NULL
               THEN [pk |-> cutoffs.sequence + 1, date |-> instance.date]
               ELSE instance
    IN IF instance.pk = NULL /\ cutoffs.rows # {}
       THEN /\ out' = [op |-> "save", instance |-> instance, before |-> cutoffs.rows,
                       raised |-> "ValidationError", saved |-> instance]
            /\ UNCHANGED <<photos, entry, query, call, qs, cleaned_data, encoded, tags,
                           phototags, connected, cutoffs>>
       ELSE /\ instance.pk = NULL => cutoffs.sequence < MaxCutoffs
            /\ cutoffs' = [rows |-> {r \in cutoffs.rows : r.pk # row.pk} \cup {row},
                           sequence |-> IF instance.pk = NULL THEN cutoffs.sequence + 1
                                        ELSE cutoffs.sequence]
            /\ out' = [op |-> "save", instance |-> instance, before |-> cutoffs.rows,
                       raised |-> "none", saved |-> row]
            /\ UNCHANGED <<photos, entry, query, call, qs, cleaned_data, encoded, tags,
                           phototags, connected>>

\* The row pk deleted in the admin site (NewCutoffAdmin).
DeleteCutoff(pk) ==
    /\ \E r \in cutoffs.rows : r.pk = pk
    /\ cutoffs' = [cutoffs EXCEPT !.rows = {r \in cutoffs.rows : r.pk # pk}]
    /\ out' = NoOut
    /\ UNCHANGED <<photos, entry, query, call, qs, cleaned_data, encoded, tags, phototags,
                   connected>>

\* Instances are new, or the instance of a stored row with the date changed or not.
NextCutoff ==
    \/ \E pk \in {NULL} \cup {r.pk : r \in cutoffs.rows}, date \in 1 .. MaxDates :
            save([pk |-> pk, date |-> date])
    \/ \E pk \in 1 .. MaxCutoffs : DeleteCutoff(pk)

SpecCutoff == Init /\ [][NextCutoff]_vars

(***************************************************************************)
(* Properties of the ordered view.                                         *)
(***************************************************************************)
\* p comes before q in (year ascending, id ascending) order.
Before(p, q) ==
    \/ photos[p].year < photos[q].year
    \/ (photos[p].year = photos[q].year /\ p < q)

IsFixture == Len(photos) = FixtureSize

\* C1: in a set produced by filter_photos the positions of its N photos are exactly
\* 0..N-1, each once, and position order is (year, id) order.
C1_PositionsArePermutation ==
    (entry = "filter_photos" /\ out.op \in {"none", "photo_position"}) =>
        LET pos == [p \in qs |-> photo_position(qs, p)]
        IN /\ {pos[p] : p \in qs} = 0 .. (Cardinality(qs) - 1)
           /\ \A p, q \in qs : (pos[p] < pos[q]) <=> Before(p, q)
           /\ out.op = "photo_position" => out.value = pos[out.photo]

\* A filtered set of three photos, two of one year, in which the position of the
\* later photo of that year was asked for.
C1_Witness ==
    /\ entry = "filter_photos"
    /\ query.expr # None
    /\ Cardinality(qs) = 3
    /\ out.op = "photo_position"
    /\ out.value = 1
    /\ \E q \in qs : q < out.photo /\ photos[q].year = photos[out.photo].year

\* C2: for an object without a page attribute and a non-empty queryset, page_number
\* is photo_position // 10 + 1; the 50 photos of 1900..1949 fall into pages 1..5,
\* ten to a page, in year order.
C2_PageNumber ==
    /\ (out.op = "page_number" /\ out.page = <<>> /\ out.given /\ qs # {}) =>
            /\ out.status = "ok"
            /\ out.value = (photo_position(qs, out.photo) \div PAGE_SIZE) + 1
    /\ (entry = "filter_photos" /\ out = NoOut /\ IsFixture /\ query.expr = None) =>
            LET pg == [p \in qs |->
                        page_number([id |-> p, page |-> <<>>, row_number |-> <<>>],
                                    <<qs>>).value]
            IN /\ qs = AllIds
               /\ \A k \in 1 .. (FixtureSize \div PAGE_SIZE) :
                    Cardinality({p \in qs : pg[p] = k}) = PAGE_SIZE
               /\ \A p, q \in qs : photos[p].year < photos[q].year => pg[p] <= pg[q]
               /\ \A p \in qs :
                    pg[p] = ((photos[p].year - FixtureFirstYear) \div PAGE_SIZE) + 1

\* A photo of the fifth page whose object carried an older row_number.
C2_Witness ==
    /\ out.op = "page_number"
    /\ out.page = <<>>
    /\ out.given
    /\ out.prior = <<25>>
    /\ out.status = "ok"
    /\ out.value = 5

\* C3: year_index of a filtered set has exactly one representative for each year of
\* the set, in year order, and its row_number is the number of photos of the set in
\* strictly earlier years.
C3_YearIndex ==
    (entry = "filter_photos" /\ out.op = "year_index") =>
        LET v == out.value
        IN /\ {v[i].year : i \in 1 .. Len(v)} = {photos[p].year : p \in qs}
           /\ Len(v) = Cardinality({photos[p].year : p \in qs})
           /\ \A i, j \in 1 .. Len(v) : i < j => v[i].year < v[j].year
           /\ \A i \in 1 .. Len(v) :
                /\ v[i].id \in qs
                /\ photos[v[i].id].year = v[i].year
                /\ v[i].row_number =
                      Cardinality({p \in qs : photos[p].year < v[i].year})

\* Two years, the earlier with two photos.
C3_Witness ==
    /\ entry = "filter_photos"
    /\ query.expr # None
    /\ out.op = "year_index"
    /\ Len(out.value) = 2
    /\ out.value[2].row_number = 2

\* The representative of the greatest year <= y, and of the least year >= y.
FloorReps(reps, y) == {i \in 1 .. Len(reps) : reps[i].year <= y}
CeilReps(reps, y) == {i \in 1 .. Len(reps) : reps[i].year >= y}

\* C4 as claimed: every listed year is linked to the representative of the greatest
\* year less than or equal to it, when there is one.
C4_FloorLookup ==
    (out.op = "year_links" /\ out.status = "ok") =>
        \A k \in 1 .. Len(out.links) :
            LET fl == FloorReps(out.reps, out.links[k].year)
            IN fl # {} =>
                out.links[k].photo =
                    out.reps[CHOOSE i \in fl : \A j \in fl : j <= i].id

\* C4 as amended: every listed year is linked to the representative of the least
\* year greater than or equal to it, and to the last representative when there is
\* none.
C4_CeilingLookup ==
    (out.op = "year_links" /\ out.status = "ok") =>
        \A k \in 1 .. Len(out.links) :
            LET cl == CeilReps(out.reps, out.links[k].year)
            IN out.links[k].photo =
                IF cl # {}
                THEN out.reps[CHOOSE i \in cl : \A j \in cl : i <= j].id
                ELSE out.reps[Len(out.reps)].id

\* A listed year without photos between two represented years, and a listed year
\* after the last represented year.
C4_Witness ==
    /\ out.op = "year_links"
    /\ out.status = "ok"
    /\ \E k \in 1 .. Len(out.links) :
        /\ FloorReps(out.reps, out.links[k].year) # {}
        /\ CeilReps(out.reps, out.links[k].year) # {}
        /\ \A i \in 1 .. Len(out.reps) : out.reps[i].year # out.links[k].year
    /\ CeilReps(out.reps, out.links[Len(out.links)].year) = {}

\* C5 as claimed: every index year_links computes lies in 0..len(year_index)-1.
C5_IndexInBounds ==
    out.op = "year_links" =>
        \A k \in 1 .. Len(out.indexes) :
            out.indexes[k] \in 0 .. (Len(out.reps) - 1)

\* C6 as claimed: year_links returns one entry for each year from the least to the
\* greatest year present, ascending.
C6_OneEntryPerYear ==
    (out.op = "year_links" /\ year_range(AllIds).start # NULL) =>
        LET yr == year_range(AllIds)
        IN /\ out.status = "ok"
           /\ Len(out.links) = yr.end - yr.start + 1
           /\ \A k \in 1 .. Len(out.links) : out.links[k].year = yr.start + k - 1

\* C7: filter calls as_collection only on a collection expression and as_search on
\* every other expression; without an expression it returns the dated, published
\* photos of the queryset.
C7_FilterDispatch ==
    entry # "idle" =>
        IF query.expr = None
        THEN /\ call = "filter"
             /\ qs = {p \in AllIds : photos[p].year # NULL /\ photos[p].is_published}
        ELSE /\ call \in {"as_collection", "as_search"}
             /\ call = "as_collection" => is_collection(query.expr)
             /\ ~is_collection(query.expr) => call = "as_search"

\* filter, on all photos, sent a Maximum with a child that is no collection to
\* as_search.
C7_Witness ==
    /\ entry = "filter"
    /\ query.expr.op = "Maximum"
    /\ call = "as_search"
    /\ qs # {}

\* C8: every photo filter_photos returns has a year and is published.
C8_FilteredPhotosVisible ==
    entry = "filter_photos" =>
        \A p \in qs : photos[p].year # NULL /\ photos[p].is_published

\* A negation, which an undated photo and an unpublished photo satisfy, with a result.
C8_Witness ==
    /\ entry = "filter_photos"
    /\ query.expr.op = "Not"
    /\ query.user = "alice"
    /\ qs # {}
    /\ \E p \in AllIds : photos[p].year = NULL
    /\ \E p \in AllIds : ~photos[p].is_published /\ photos[p].year = Y0

C10_FallbackOnAnyFailure ==
    (/\ out.op = "as_expression"
     /\ \/ out.tokenize # "none"
        \/ out.parse \notin {"none", "skipped", "NoExpression"}) =>
        /\ out.simple_parse \in {"none", "NoExpression"}
        /\ out.raised \in {"none", "NoExpression"}

(***************************************************************************)
(* Properties of the search form's structured filters.                     *)
(***************************************************************************)
\* The operands of a chain of Or made by reduce(expression.Or, form_exprs).
RECURSIVE or_operands(_)
or_operands(e) == IF e.op = "Or" THEN or_operands(e.left) \cup {e.right} ELSE {e}

\* The parts the structured filters of the cleaned data cd stand for: a leaf for
\* each filter that is set (a year of 0 counts as not set), the two years joined by
\* And.
filter_parts(cd) ==
    LET start == cd.startYear # <<>> /\ cd.startYear[1] # 0
        end == cd.endYear # <<>> /\ cd.endYear[1] # 0
    IN (IF cd.term # <<>> THEN {TermExactly(cd.term[1])} ELSE {})
       \cup (IF start /\ end THEN {And(YearGTE(cd.startYear[1]), YearLTE(cd.endYear[1]))}
             ELSE IF start THEN {YearGTE(cd.startYear[1])}
             ELSE IF end THEN {YearLTE(cd.endYear[1])}
             ELSE {})
       \cup (IF cd.donor # <<>> THEN {DonorExactly(cd.donor[1])} ELSE {})
       \cup (IF cd.city # <<>> THEN {City(cd.city)} ELSE {})
       \cup (IF cd.county # <<>> THEN {County(cd.county)} ELSE {})
       \cup (IF cd.state # <<>> THEN {State(cd.state)} ELSE {})
       \cup (IF cd.country # <<>> THEN {Country(cd.country)} ELSE {})

\* C11: every structured filter of the search form that is set (term, start and end
\* year, donor, city, county, state, country) contributes its leaf to the expression
\* as_expression returns, the parts being joined by Or and the two years by And.
\* Stated for the forms whose query text the tokenizer accepts.
C11_EveryFilterContributes ==
    (out.op = "as_expression" /\ out.tokenize = "none" /\ filter_parts(cleaned_data) # {}) =>
        /\ out.raised = "none"
        /\ filter_parts(cleaned_data) \subseteq or_operands(out.value[1])

\* The same for the filters as_expression reads: all of them but the county.
C11_FiltersOtherThanCounty ==
    (out.op = "as_expression" /\ out.tokenize = "none"
        /\ filter_parts([cleaned_data EXCEPT !.county = <<>>]) # {}) =>
        /\ out.raised = "none"
        /\ filter_parts([cleaned_data EXCEPT !.county = <<>>]) \subseteq or_operands(out.value[1])

(***************************************************************************)
(* Properties of the expression tree.                                      *)
(***************************************************************************)
IsLeaf(e) == e.op \in YearOps \cup TextOps \cup RowOps

\* is_collection as the statement of it goes, by structural recursion: the leaves in
\* NotCollections are not collections, And and Maximum are when both children are.
RECURSIVE CollectionBy(_, _)
CollectionBy(NotCollections, e) ==
    CASE IsLeaf(e) -> e.op \notin NotCollections
      [] e.op \in {"And", "Maximum"} ->
            CollectionBy(NotCollections, e.left) /\ CollectionBy(NotCollections, e.right)
      [] e.op \in {"Or", "Not"} -> FALSE

\* C12 (as stated): is_collection() is true for every leaf predicate, Caption
\* included; for And(a,b) and Maximum(a,b) it is a.is_collection() and
\* b.is_collection(); for Or(a,b) and Not(a) it is false.
C12_EveryLeafIsCollection ==
    out.op = "is_collection" => out.value = CollectionBy({}, out.expr)

\* C12 (amended): is_collection() is true for every leaf predicate but Caption, for
\* which it is false; for And(a,b) and Maximum(a,b) it is a.is_collection() and
\* b.is_collection(); for Or(a,b) and Not(a) it is false.
C12_LeavesButCaptionAreCollections ==
    out.op = "is_collection" =>
        /\ out.value = CollectionBy({"Caption"}, out.expr)
        /\ (out.expr = And(Term(<<"F", "a", "r", "m">>), Caption(<<"A", "n", "i", "m", "a", "l", "s">>)) => ~out.value)
        /\ (out.expr = Maximum(Term(<<"F", "a", "r", "m">>), Term(<<"A", "n", "i", "m", "a", "l", "s">>)) => out.value)

C12_Witness ==
    /\ out.op = "is_collection"
    /\ out.expr = Maximum(Term(<<"F", "a", "r", "m">>), Caption(<<"A", "n", "i", "m", "a", "l", "s">>))
    /\ ~out.value

\* The label of a leaf as the statement of it goes.
YEAR_LABEL == <<"Y", "e", "a", "r", ":", " ">>
TERM_LABEL == <<"T", "e", "r", "m", ":", " ">>

LabelsOfLeavesAndCombinators ==
    /\ (out.expr.op \in {"And", "Or", "Not"} => out.status = "NotImplementedError")
    /\ (out.expr.op \in YearOps \cup TextOps => out.status = "ok")
    /\ (out.expr.op = "YearEquals" => out.value = YEAR_LABEL \o int_to_str(out.expr.value))
    /\ (out.expr.op = "YearLTE" =>
            out.value = YEAR_LABEL \o int_to_str(out.expr.value) \o <<"-">>)
    /\ (out.expr.op = "YearGTE" =>
            out.value = YEAR_LABEL \o int_to_str(out.expr.value) \o <<"+">>)
    /\ (out.expr.op \in TextOps \ {"Term"} =>
            out.value = CLASS_NAME[out.expr.op] \o <<":", " ">> \o out.expr.value)
    /\ (out.expr = Term(<<"F", "a", "r", "m">>) => out.value = TERM_LABEL \o <<"f", "a", "r", "m">>)
    /\ (out.expr.op = "Term" =>
            /\ Len(out.value) = 6 + Len(out.expr.value)
            /\ SubSeq(out.value, 1, 6) = TERM_LABEL
            /\ \A i \in 1 .. Len(out.expr.value) :
                    /\ out.value[6 + i] \notin {ASCII[k] : k \in 34 .. 59}
                    /\ lower_char(out.expr.value[i]) = out.value[6 + i])

IsChainOfLeaves(toks) ==
    /\ Len(toks) > 0
    /\ \A i \in 1 .. Len(toks) : toks[i].kind \in {"leaf", "-", "AND", "OR", "|"}
    /\ toks[1].kind \in {"leaf", "-"}
    /\ toks[Len(toks)].kind = "leaf"
    /\ \A i \in 1 .. Len(toks) - 1 :
            IF toks[i].kind = "leaf" THEN toks[i + 1].kind \in {"AND", "OR", "|"}
            ELSE toks[i + 1].kind \in {"leaf", "-"}

\* How tightly the operator at the root of e binds.
Rank(e) ==
    CASE e.op = "Maximum" -> 0
      [] e.op = "Or" -> 1
      [] e.op = "And" -> 2
      [] e.op = "Not" -> 3
      [] OTHER -> 4

\* No operator of e has an operand whose operator binds looser than it.
RECURSIVE Ranked(_)
Ranked(e) ==
    CASE e.op \in {"And", "Or", "Maximum"} ->
            /\ Rank(e.left) >= Rank(e) /\ Rank(e.right) >= Rank(e)
            /\ Ranked(e.left) /\ Ranked(e.right)
      [] e.op = "Not" -> Rank(e.inner) >= Rank(e) /\ Ranked(e.inner)
      [] OTHER -> TRUE

\* The leaves and operators of e from left to right, an operator as its token kind.
RECURSIVE Flatten(_)
Flatten(e) ==
    CASE e.op = "And" -> Flatten(e.left) \o <<"AND">> \o Flatten(e.right)
      [] e.op = "Or" -> Flatten(e.left) \o <<"OR">> \o Flatten(e.right)
      [] e.op = "Maximum" -> Flatten(e.left) \o <<"|">> \o Flatten(e.right)
      [] e.op = "Not" -> <<"-">> \o Flatten(e.inner)
      [] OTHER -> <<e>>

Marks(toks) ==
    [i \in 1 .. Len(toks) |-> IF toks[i].kind = "leaf" THEN toks[i].value ELSE toks[i].kind]

\* C13: the parser honours operator precedence: | (Maximum) binds loosest, then OR,
\* then AND, and unary - binds tighter than any binary operator and negates only the
\* term or group that follows it; parentheses override precedence. Every chain of
\* typed terms and operators without parentheses parses to a tree that reads as the
\* chain from left to right and in which no operand binds looser than its operator,
\* and the texts of ParserTest parse to the trees the tests give.
C13_Precedence ==
    out.op = "parse" =>
        LET bird == Caption(<<"b", "i", "r", "d">>)
            dg == Caption(<<"d", "o", "g">>)
            cat == Caption(<<"c", "a", "t">>)
            banana == Caption(<<"b", "a", "n", "a", "n", "a">>)
        IN /\ (IsChainOfLeaves(out.tokens) =>
                    /\ out.err = "none"
                    /\ Ranked(out.e[1])
                    /\ Flatten(out.e[1]) = Marks(out.tokens))
           /\ (out.text = <<"-", "c", "a", "p", "t", "i", "o", "n", ":", "b", "i", "r", "d", " ", "A", "N", "D", " ", "c", "a", "p", "t", "i", "o", "n", ":", "d", "o", "g", " ", "O", "R", " ", "c", "a", "p", "t", "i", "o", "n", ":", "c", "a", "t", " ", "A", "N", "D", " ", "c", "a", "p", "t", "i", "o", "n", ":", "b", "a", "n", "a", "n", "a">>
                => out.e = <<Or(And(Not(bird), dg), And(cat, banana))>>)
           /\ (out.text = <<"c", "a", "p", "t", "i", "o", "n", ":", "b", "i", "r", "d", " ", "A", "N", "D", " ", "c", "a", "p", "t", "i", "o", "n", ":", "d", "o", "g", " ", "O", "R", " ", "c", "a", "p", "t", "i", "o", "n", ":", "c", "a", "t", " ", "A", "N", "D", " ", "c", "a", "p", "t", "i", "o", "n", ":", "b", "a", "n", "a", "n", "a">>
                => out.e = <<Or(And(bird, dg), And(cat, banana))>>)
           /\ (out.text = <<"c", "a", "p", "t", "i", "o", "n", ":", "b", "i", "r", "d", " ", "O", "R", " ", "c", "a", "p", "t", "i", "o", "n", ":", "d", "o", "g", " ", "|", " ", "c", "a", "p", "t", "i", "o", "n", ":", "c", "a", "t", " ", "O", "R", " ", "c", "a", "p", "t", "i", "o", "n", ":", "b", "a", "n", "a", "n", "a">>
                => out.e = <<Maximum(Or(bird, dg), Or(cat, banana))>>)
           /\ (out.text = <<"c", "a", "p", "t", "i", "o", "n", ":", "b", "i", "r", "d", " ", "A", "N", "D", " ", "(", "c", "a", "p", "t", "i", "o", "n", ":", "d", "o", "g", " ", "O", "R", " ", "c", "a", "p", "t", "i", "o", "n", ":", "c", "a", "t", ")", " ", "A", "N", "D", " ", "c", "a", "p", "t", "i", "o", "n", ":", "b", "a", "n", "a", "n", "a">>
                => out.e = <<And(And(bird, Or(dg, cat)), banana)>>)
           /\ (out.text = <<"(", "c", "a", "p", "t", "i", "o", "n", ":", "b", "i", "r", "d", " ", "O", "R", " ", "c", "a", "p", "t", "i", "o", "n", ":", "d", "o", "g", ")", " ", "A", "N", "D", " ", "(", "c", "a", "p", "t", "i", "o", "n", ":", "c", "a", "t", " ", "O", "R", " ", "c", "a", "p", "t", "i", "o", "n", ":", "b", "a", "n", "a", "n", "a", ")">>
                => out.e = <<And(Or(bird, dg), Or(cat, banana))>>)
           /\ (out.text = <<"-", "(", "c", "a", "p", "t", "i", "o", "n", ":", "b", "i", "r", "d", ")">>
                => out.e = <<Not(bird)>>)
           /\ (out.text = <<"c", "a", "p", "t", "i", "o", "n", ":", "b", "i", "r", "d", " ", "A", "N", "D", " ", "-", "(", "c", "a", "p", "t", "i", "o", "n", ":", "d", "o", "g", " ", "O", "R", " ", "c", "a", "p", "t", "i", "o", "n", ":", "c", "a", "t", ")", " ", "A", "N", "D", " ", "c", "a", "p", "t", "i", "o", "n", ":", "b", "a", "n", "a", "n", "a">>
                => out.e = <<And(And(bird, Not(Or(dg, cat))), banana)>>)
           /\ (out.text = <<"-", "(", "c", "a", "p", "t", "i", "o", "n", ":", "b", "i", "r", "d", " ", "O", "R", " ", "c", "a", "p", "t", "i", "o", "n", ":", "d", "o", "g", ")", " ", "A", "N", "D", " ", "(", "-", "c", "a", "p", "t", "i", "o", "n", ":", "c", "a", "t", " ", "O", "R", " ", "c", "a", "p", "t", "i", "o", "n", ":", "b", "a", "n", "a", "n", "a", ")">>
                => out.e = <<And(Not(Or(bird, dg)), Or(Not(cat), banana))>>)
           /\ (out.text = <<" ", "-", "(", " ", "c", "a", "p", "t", "i", "o", "n", ":", "b", "i", "r", "d", " ", "O", "R", " ", "c", "a", "p", "t", "i", "o", "n", ":", "d", "o", "g", " ", " ", ")", "A", "N", "D", "(", "-", " ", "c", "a", "p", "t", "i", "o", "n", ":", "c", "a", "t", " ", "O", "R", " ", "c", "a", "p", "t", "i", "o", "n", ":", "b", "a", "n", "a", "n", "a", ")", " ">>
                => out.e = <<And(Not(Or(bird, dg)), Or(Not(cat), banana))>>)

C13_Witness ==
    /\ out.op = "parse"
    /\ out.text = <<"-", "c", "a", "p", "t", "i", "o", "n", ":", "b", "i", "r", "d", " ", "A", "N", "D", " ", "c", "a", "p", "t", "i", "o", "n", ":", "d", "o", "g", " ", "O", "R", " ", "c", "a", "p", "t", "i", "o", "n", ":", "c", "a", "t", " ", "A", "N", "D", " ", "c", "a", "p", "t", "i", "o", "n", ":", "b", "a", "n", "a", "n", "a">>
    /\ out.e[1].op = "Or" /\ out.e[1].left.op = "And" /\ out.e[1].left.left.op = "Not"

IsTerm(t) == t.kind \in {"leaf", "word", "number"}

\* The statement of the expression of a bare word.
WordChain(w) ==
    Or(Donor(w), Or(Caption(w), Or(State(w), Or(Country(w),
        Or(County(w), Or(City(w), Or(Tag(w), Term(w))))))))

\* The expression of one term token.
TermOf(t) ==
    CASE t.kind = "leaf" -> t.value
      [] t.kind = "word" -> WordChain(t.value)
      [] t.kind = "number" -> Or(YearEquals(str_to_int(t.value)), WordChain(t.value))

AdjacentPairJoinedBy(op) ==
    out.op = "parse" =>
        /\ (Len(out.tokens) = 2 /\ IsTerm(out.tokens[1]) /\ IsTerm(out.tokens[2]) =>
                out.e = <<[op |-> op, left |-> TermOf(out.tokens[1]),
                           right |-> TermOf(out.tokens[2])]>>)
        /\ (out.text = <<"(", "(", "c", "a", "p", "t", "i", "o", "n", ":", "b", "i", "r", "d", " ", "O", "R", " ", "c", "a", "p", "t", "i", "o", "n", ":", "d", "o", "g", ")", " ", "A", "N", "D", " ", "(", "c", "a", "p", "t", "i", "o", "n", ":", "c", "a", "t", " ", "c", "a", "p", "t", "i", "o", "n", ":", "b", "a", "n", "a", "n", "a", ")", ")">>
                => out.e = <<And(Or(Caption(<<"b", "i", "r", "d">>), Caption(<<"d", "o", "g">>)),
                                [op |-> op, left |-> Caption(<<"c", "a", "t">>),
                                 right |-> Caption(<<"b", "a", "n", "a", "n", "a">>)])>>)

C15_BareWords ==
    out.op = "parse" =>
        /\ (out.text = dog => out.e = <<WordChain(dog)>>)
        /\ (out.text = <<"1", "9", "1", "2">>
                => out.e = <<Or(YearEquals(1912), WordChain(<<"1", "9", "1", "2">>))>>)
        /\ (Len(out.tokens) = 1 /\ out.tokens[1].kind = "word" =>
                /\ ~IsNumeric(out.tokens[1].value)
                /\ out.e = <<WordChain(out.tokens[1].value)>>)
        /\ (Len(out.tokens) = 1 /\ out.tokens[1].kind = "number" =>
                /\ IsNumeric(out.tokens[1].value)
                /\ out.e = <<Or(YearEquals(str_to_int(out.tokens[1].value)),
                                WordChain(out.tokens[1].value))>>)

C15_Witness ==
    /\ out.op = "parse"
    /\ out.text = <<"1", "9", "1", "2">>
    /\ out.e[1].left = YearEquals(1912)
    /\ out.e[1].right.left = Donor(<<"1", "9", "1", "2">>)

\* The grouping of the tokens from token i on, read from left to right with the
\* groups that are open (for each, whether it has a term yet): the index of the first
\* ")" that closes nothing or closes a group without a term, or, without one, whether
\* a group is still open at the end.
RECURSIVE grouping(_, _, _)
grouping(toks, i, open) ==
    IF i > Len(toks)
    THEN [err |-> IF open = <<>> THEN "none" ELSE "ExpectedParenthesis", index |-> 0]
    ELSE LET n == Len(open)
             filled == IF n = 0 THEN open ELSE [open EXCEPT ![n] = TRUE]
         IN CASE toks[i].kind = "(" -> grouping(toks, i + 1, Append(open, FALSE))
              [] toks[i].kind = ")" ->
                    IF n = 0 \/ ~open[n]
                    THEN [err |-> "UnexpectedParenthesis", index |-> i - 1]
                    ELSE LET rest == SubSeq(open, 1, n - 1)
                         IN grouping(toks, i + 1,
                                IF n = 1 THEN rest ELSE [rest EXCEPT ![n - 1] = TRUE])
              [] IsTerm(toks[i]) -> grouping(toks, i + 1, filled)
              [] OTHER -> grouping(toks, i + 1, open)

\* C16: parsing tokens with malformed grouping fails with a typed error and gives no
\* tree: a ")" that closes nothing, or an empty group, raises UnexpectedParenthesis
\* with the index of that token (3 for caption:bird OR caption:dog) ...), and a group
\* that is still open at the end of the input raises ExpectedParenthesis.
C16_MalformedGrouping ==
    out.op = "parse" =>
        LET g == grouping(out.tokens, 1, <<>>)
        IN /\ (g.err = "UnexpectedParenthesis" =>
                    out.err = "UnexpectedParenthesis" /\ out.index = g.index)
           /\ (g.err = "ExpectedParenthesis" => out.err = "ExpectedParenthesis")
           /\ (out.err # "none" => out.e = <<>>)
           /\ (out.text = <<"c", "a", "p", "t", "i", "o", "n", ":", "b", "i", "r", "d", " ", "O", "R", " ", "c", "a", "p", "t", "i", "o", "n", ":", "d", "o", "g", ")", " ", "A", "N", "D", " ", "(", "-", "c", "a", "p", "t", "i", "o", "n", ":", "c", "a", "t", " ", "O", "R", " ", "c", "a", "p", "t", "i", "o", "n", ":", "b", "a", "n", "a", "n", "a", ")">>
                => out.err = "UnexpectedParenthesis" /\ out.index = 3)
           /\ (out.text = <<"(", "c", "a", "p", "t", "i", "o", "n", ":", "b", "i", "r", "d", " ", "O", "R", " ", "c", "a", "p", "t", "i", "o", "n", ":", "d", "o", "g", ")", " ", "A", "N", "D", " ", "(", "-", "c", "a", "p", "t", "i", "o", "n", ":", "c", "a", "t", " ", "O", "R", " ", "c", "a", "p", "t", "i", "o", "n", ":", "b", "a", "n", "a", "n", "a">>
                => out.err = "ExpectedParenthesis")
           /\ (out.text = <<"(", ")", " ", "A", "N", "D", " ", "(", "-", "c", "a", "p", "t", "i", "o", "n", ":", "c", "a", "t", " ", "O", "R", " ", "c", "a", "p", "t", "i", "o", "n", ":", "b", "a", "n", "a", "n", "a">>
                => out.err = "UnexpectedParenthesis")

C16_Witness ==
    /\ out.op = "parse"
    /\ out.text = <<"c", "a", "p", "t", "i", "o", "n", ":", "b", "i", "r", "d", " ", "O", "R", " ", "c", "a", "p", "t", "i", "o", "n", ":", "d", "o", "g", ")", " ", "A", "N", "D", " ", "(", "-", "c", "a", "p", "t", "i", "o", "n", ":", "c", "a", "t", " ", "O", "R", " ", "c", "a", "p", "t", "i", "o", "n", ":", "b", "a", "n", "a", "n", "a", ")">>
    /\ out.err = "UnexpectedParenthesis"
    /\ out.index = 3

(***************************************************************************)
(* Properties of searching with an expression.                             *)
(***************************************************************************)
\* Whether the photo p satisfies the expression e, read as a formula over the photo.
RECURSIVE Satisfies(_, _)
Satisfies(p, e) ==
    CASE e.op = "YearEquals" -> photos[p].year # NULL /\ photos[p].year = e.value
      [] e.op = "YearLTE" -> photos[p].year # NULL /\ photos[p].year <= e.value
      [] e.op = "YearGTE" -> photos[p].year # NULL /\ photos[p].year >= e.value
      [] e.op = "And" -> Satisfies(p, e.left) /\ Satisfies(p, e.right)
      [] e.op = "Or" -> Satisfies(p, e.left) \/ Satisfies(p, e.right)
      [] e.op = "Not" -> ~Satisfies(p, e.inner)

C20_TagLivesWhileReferenced ==
    (out.op \in {"delete_phototag", "delete_photo"} /\ out.status = "ok") =>
        \A d \in out.deleted :
            /\ tags[d.tag] <=> d.others > 0
            /\ tags[d.tag] <=> phototag_set(Database, d.tag) # {}
            /\ Cardinality(phototag_set(Database, d.tag)) = d.others

\* Every PhotoTag references a Tag that exists, and the handler is connected between
\* operations.
TagsAreConsistent ==
    /\ connected
    /\ \A i \in 1 .. Len(phototags) :
            phototags[i].live => phototags[i].tag \in 1 .. Len(tags) /\ tags[phototags[i].tag]

C20_Witness ==
    /\ out.op = "delete_phototag"
    /\ out.status = "ok"
    /\ \E d \in out.deleted : d.others = 0 /\ ~tags[d.tag]
    /\ \E i \in 1 .. Len(phototags) : phototags[i].live

(***************************************************************************)
(* Properties of submitted tags.                                           *)
(***************************************************************************)
\* The PhotoTag rows of the tag t for the photo ph.
PhotoTagsOf(t, ph) ==
    {i \in 1 .. Len(phototags) : phototags[i].tag = t /\ phototags[i].photo = ph}

RECURSIVE split(_, _)
split(s, sep) ==
    IF \A i \in 1 .. Len(s) : s[i] # sep THEN <<s>>
    ELSE LET i == CHOOSE i \in 1 .. Len(s) : s[i] = sep /\ \A j \in 1 .. i - 1 : s[j] # sep
         IN <<SubSeq(s, 1, i - 1)>> \o split(SubSeq(s, i + 1, Len(s)), sep)

\* The value of a hexadecimal digit.
HexValue(c) ==
    LET D == <<"0", "1", "2", "3", "4", "5", "6", "7", "8", "9", "A", "B", "C", "D", "E", "F">>
    IN (CHOOSE i \in 1 .. Len(D) : D[i] = c) - 1

\* The string a quoted string stands for: "+" is a space, %XY the character XY.
RECURSIVE unquote_plus(_)
unquote_plus(s) ==
    IF s = <<>> THEN <<>>
    ELSE IF s[1] = "+" THEN <<" ">> \o unquote_plus(Tail(s))
    ELSE IF s[1] = "%"
         THEN <<ASCII[(16 * HexValue(s[2])) + HexValue(s[3]) - 31]>>
                    \o unquote_plus(SubSeq(s, 4, Len(s)))
    ELSE <<s[1]>> \o unquote_plus(Tail(s))

\* The (key, value) pairs of a query string.
parse_qsl(s) ==
    IF s = <<>> THEN {}
    ELSE LET ps == split(s, "&")
         IN {<<unquote_plus(split(ps[i], "=")[1]), unquote_plus(split(ps[i], "=")[2])>> :
                i \in 1 .. Len(ps)}

\* The (key, value) pairs of a QueryDict.
Entries(qd) ==
    {<<qd[i].key, qd[i].values[j]>> : <<i, j>> \in
        {<<i, j>> \in (1 .. Len(qd)) \X (1 .. 2) : j <= Len(qd[i].values)}}

\* The pairs of the query string of the url the last format_url returned.
UrlQuery == parse_qsl(SubSeq(out.value, 3, Len(out.value)))

\* C23: get_absolute_url() of a Tag returns the search-results url with the query
\* string tag=<the tag's text>, and get_embedded_url() likewise, without raising.
C23_TagUrl ==
    (out.op = "format_url" /\ out.kind = "Tag") =>
        /\ out.raised = "none"
        /\ out.value[1] = out.viewname
        /\ out.value[2] = "?"
        /\ <<<<"t", "a", "g">>, out.obj>> \in UrlQuery

\* The key of the query string that holds the id of the object of the last url.
KeyOf(kind) == IF kind = "Donor" THEN <<"d", "o", "n", "o", "r">> ELSE <<"t", "e", "r", "m">>

C27_PageLinks ==
    out.op = "page_links" =>
        LET has(i) == "url" \in DOMAIN out.links[i]
            page(i) == out.links[i].url.page
        IN /\ <<out.links[1].label, out.links[2].label, out.links[3].label,
                 out.links[4].label>> = <<"First", "Previous", "Next", "Last">>
           /\ has(1) <=> out.number # 1
           /\ has(2) <=> out.number # 1
           /\ has(3) <=> out.number + 1 <= out.num_pages
           /\ has(4) <=> out.number # out.num_pages
           /\ has(1) => page(1) = 1
           /\ has(2) => page(2) = out.number - 1
           /\ has(3) => page(3) = out.number + 1
           /\ has(4) => page(4) = out.num_pages

C27_Witness ==
    /\ out.op = "page_links"
    /\ out.number = 3
    /\ out.num_pages = 4
    /\ \A i \in 1 .. 4 : "url" \in DOMAIN out.links[i]

(***************************************************************************)
(* Properties of the deletion of tags.                                     *)
(***************************************************************************)
\* C25: deleting a Tag succeeds and removes the Tag with its PhotoTag rows, and
\* remove_deadtags is connected again when the deletion has completed: in every
\* sequence of deletions of Tags and PhotoTags the handler is connected between
\* the operations, and a deletion of the last PhotoTag of a tag deletes the tag.
C25_TagDeletionReconnects ==
    /\ connected
    /\ out.op = "delete_tag" =>
            /\ out.status = "ok"
            /\ ~tags[out.tag]
            /\ phototag_set(Database, out.tag) = {}
            /\ \A i \in out.rows : ~phototags[i].live
    /\ (out.op = "delete_phototag" /\ out.status = "ok") =>
            \A d \in out.deleted : d.others = 0 => ~tags[d.tag]

C25_Witness ==
    /\ out.op = "delete_tag"
    /\ Cardinality(out.rows) = 2
    /\ connected
    /\ \E t \in 1 .. Len(tags) : tags[t] /\ phototag_set(Database, t) # {}

(***************************************************************************)
(* Properties of the search form's NoExpression.                           *)
(***************************************************************************)
\* C26: as_expression raises NoExpression exactly when the query text yields no
\* expression (NoExpression from tokenize and parse, or from the simple_parse
\* fallback) and none of the structured filters it reads contributes a leaf; in
\* every other case it returns an expression and raises nothing.
C26_NoExpressionExactly ==
    out.op = "as_expression" =>
        IF /\ "NoExpression" \in {out.tokenize, out.parse, out.simple_parse}
           /\ filter_parts([cleaned_data EXCEPT !.county = <<>>]) = {}
        THEN out.raised = "NoExpression"
        ELSE out.raised = "none" /\ Len(out.value) = 1

\* The same for the forms whose query text the tokenizer accepts.
C26_WhenTokenized ==
    (out.op = "as_expression" /\ out.tokenize \in {"none", "NoExpression"}) =>
        C26_NoExpressionExactly

(***************************************************************************)
(* year_index and photo_position.                                          *)
(***************************************************************************)
\* C28: for a filtered set (its photos all have a year) every representative that
\* year_index returns is the photo of smallest id among the photos of the set in its
\* year, and its row_number is the photo_position of that photo in the set, so that
\* page_number gives the same page from the row_number as from the set.
C28_IndexAgreesWithPosition ==
    (entry = "filter_photos" /\ out.op = "year_index") =>
        \A i \in 1 .. Len(out.value) :
            LET r == out.value[i]
            IN /\ r.id \in qs
               /\ \A p \in qs : photos[p].year = photos[r.id].year => r.id <= p
               /\ r.row_number = photo_position(qs, r.id)
               /\ page_number([id |-> r.id, page |-> <<>>, row_number |-> <<r.row_number>>],
                              <<>>).value
                    = page_number([id |-> r.id, page |-> <<>>, row_number |-> <<>>],
                                  <<qs>>).value

\* Two years with two photos each, in the order of the ids 1, 2 of the later year and
\* then one of the earlier year.
C28_Witness ==
    /\ entry = "filter_photos"
    /\ out.op = "year_index"
    /\ Len(out.value) = 2
    /\ out.value[1].id > out.value[2].id
    /\ out.value[2].row_number = 1
    /\ Cardinality({p \in qs : photos[p].year = out.value[2].year}) = 2

(***************************************************************************)
(* Properties of NewCutoff.                                                *)
(***************************************************************************)
\* C29: after any sequence of NewCutoff.save() calls, of new instances and of
\* instances already stored, at most one NewCutoff row exists: saving a new instance
\* while a row exists raises ValidationError and leaves the stored row unchanged, and
\* every other save (a new instance into the empty table, the stored instance again)
\* succeeds and stores the instance.
C29_OneCutoff ==
    /\ Cardinality(cutoffs.rows) <= 1
    /\ out.op = "save" =>
            IF out.instance.pk = NULL /\ out.before # {}
            THEN out.raised = "ValidationError" /\ cutoffs.rows = out.before
            ELSE out.raised = "none" /\ cutoffs.rows = {out.saved}
                    /\ out.saved.date = out.instance.date

\* A new instance refused, and the stored instance saved again with another date.
C29_Witness ==
    /\ out.op = "save"
    /\ out.instance.pk # NULL
    /\ out.raised = "none"
    /\ out.before # cutoffs.rows
    /\ cutoffs.sequence = 1

====
